---- MODULE Spec2Model ----
(***************************************************************************)
(* Model of the tool-calling orchestrator of the voice assistant:          *)
(*   src/src/chat/mcp_bridge.py    run_chat_with_mcp_tools (buffered) and  *)
(*                                 run_chat_with_mcp_tools_streaming       *)
(*   src/src/agent/chat.py         ChatAgent.respond                       *)
(*   src/src/chat/session_store.py the in-memory session history           *)
(*   src/scripts/flask_server.py   chat_stream_endpoint (SSE driver)       *)
(*                                                                         *)
(* Text is a sequence of tokens (words and punctuation marks): two         *)
(* neighbouring word tokens are separated by one blank.  A JSON text is    *)
(* the token sequence  { k : v , k : v }  of a flat object.  An optional   *)
(* value is a record [none, text].                                         *)
(***************************************************************************)
EXTENDS Integers, Sequences, FiniteSets, TLC

\* ------------------------------------------------------------------ bounds
\* times the collaborators (LLM, tools, speech synthesis, timer) depart from
\* their plain behaviour during the first round of a session
MaxVaried == 2
\* requests of one session in the multi-turn specification
MaxRequests == 3
\* keep-alive comments the driver sends during one session
MaxKeepAlive == 1
\* tools of a catalog handed to _filter_tools
MaxTools == 2
\* places at which an answer text is cut into deltas
MaxCuts == 2
\* requests the server works on at the same time
MaxClients == 2

\* ------------------------------------------------------- program constants
max_tool_loops == 15
max_turns == 40

\* ------------------------------------------------------------ optional text
None == [none |-> TRUE, text |-> <<>>]
Some(t) == [none |-> FALSE, text |-> t]
\* Python's  x or ""  on an optional text
OrEmpty(c) == IF c.none THEN <<>> ELSE c.text
\* Python's  x or None  on a text
OrNone(t) == IF t = <<>> THEN None ELSE Some(t)

\* ------------------------------------------------------------------- JSON
\* A dict is a sequence of <<key, value>> pairs in insertion order.
EmptyDict == <<>>

RECURSIVE DumpPairs(_)
DumpPairs(d) ==
    IF d = <<>> THEN <<>>
    ELSE IF Len(d) = 1 THEN <<d[1][1], ":", d[1][2]>>
    ELSE <<d[1][1], ":", d[1][2], ",">> \o DumpPairs(Tail(d))

\* json.dumps of a flat dict
JsonDumps(d) == <<"{">> \o DumpPairs(d) \o <<"}">>

Structural == {"{", "}", ":", ","}

RECURSIVE ParsePairs(_)
\* the pairs of  k : v (, k : v)* ; ok = FALSE when the text is not of that form
ParsePairs(s) ==
    IF Len(s) < 3 \/ s[1] \in Structural \/ s[2] # ":" \/ s[3] \in Structural
    THEN [ok |-> FALSE, value |-> EmptyDict]
    ELSE IF Len(s) = 3 THEN [ok |-> TRUE, value |-> << <<s[1], s[3]>> >>]
    ELSE IF s[4] # "," THEN [ok |-> FALSE, value |-> EmptyDict]
    ELSE LET rest == ParsePairs(SubSeq(s, 5, Len(s)))
         IN  IF ~rest.ok THEN rest
             ELSE [ok |-> TRUE, value |-> << <<s[1], s[3]>> >> \o rest.value]

\* json.loads: [ok |-> TRUE, value |-> dict], or ok = FALSE for JSONDecodeError
JsonLoads(s) ==
    IF Len(s) < 2 \/ s[1] # "{" \/ s[Len(s)] # "}"
    THEN [ok |-> FALSE, value |-> EmptyDict]
    ELSE IF Len(s) = 2 THEN [ok |-> TRUE, value |-> EmptyDict]
    ELSE ParsePairs(SubSeq(s, 2, Len(s) - 1))

RECURSIVE DictGet(_, _)
\* dict.get(k) or "": the value of the last pair with key k
DictGet(d, k) ==
    IF d = <<>> THEN ""
    ELSE IF d[Len(d)][1] = k THEN d[Len(d)][2]
    ELSE DictGet(SubSeq(d, 1, Len(d) - 1), k)

\* str.lower on one token
Lower(w) ==
    CASE w = "Yes" -> "yes"
      [] w = "OK" -> "ok"
      [] w = "Go" -> "go"
      [] w = "SUCCESS" -> "success"
      [] w = "Success" -> "success"
      [] OTHER -> w

\* ------------------------------------------------------------ tool catalog
\* workflow_server.py: the tools served, with their tags
Catalog == <<
    [name |-> "get_weather", tags |-> {"weather"}],
    [name |-> "send_gmail_draft", tags |-> {"gmail", "requires_confirmation"}] >>

ToolNames == {Catalog[i].name : i \in 1..Len(Catalog)}

\* tool_tags_by_name.get(name, set())
tool_tags_by_name(name) ==
    IF name \in ToolNames
    THEN (CHOOSE t \in {Catalog[i] : i \in 1..Len(Catalog)} : t.name = name).tags
    ELSE {}

\* -------------------------------------------------------------- tool filter
\* an optional collection argument: absent (None) or provided, maybe empty
Absent == [provided |-> FALSE, values |-> {}]
Provided(S) == [provided |-> TRUE, values |-> S]

\* a filter that treats a provided empty allowed_tags like an absent one
filter_tools_unguarded(tool_list, names_arg, tags_arg, required_arg) ==
    SelectSeq(tool_list,
              LAMBDA tool :
                  /\ names_arg.values = {} \/ tool.name \in names_arg.values
                  /\ tags_arg.values = {} \/ tool.tags \cap tags_arg.values # {}
                  /\ required_arg.values \subseteq tool.tags)

\* a test that wants every allowed tag on the tool
KeepsAll(tool, names, any_tags, tag_set) ==
    /\ names = {} \/ tool.name \in names
    /\ any_tags \subseteq tool.tags
    /\ tag_set \subseteq tool.tags

\* _filter_tools, the loop body: the tool is appended
Keeps(tool, names, any_tags, tag_set) ==
    /\ ~(names # {} /\ tool.name \notin names)
    /\ ~(any_tags # {} /\ tool.tags \cap any_tags = {})
    /\ ~(tag_set # {} /\ ~(tag_set \subseteq tool.tags))

RECURSIVE FilterLoop(_, _, _, _)
\* _filter_tools, the loop over the tools
FilterLoop(tool_list, names, any_tags, tag_set) ==
    IF tool_list = <<>> THEN <<>>
    ELSE (IF Keeps(tool_list[1], names, any_tags, tag_set) THEN <<tool_list[1]>> ELSE <<>>)
         \o FilterLoop(Tail(tool_list), names, any_tags, tag_set)

\* _filter_tools: `x or []` makes an absent argument the empty set
_filter_tools(tool_list, names_arg, tags_arg, required_arg) ==
    IF tags_arg.provided /\ tags_arg.values = {} THEN <<>>
    ELSE FilterLoop(tool_list, names_arg.values, tags_arg.values, required_arg.values)

\* the tags carried by the tools of a list
TagsOf(tool_list) == UNION {tool_list[i].tags : i \in 1..Len(tool_list)}

\* _tool_availability_message: the enabled categories, the disabled
\* categories and the tool names that the notice lists
_tool_availability_message(all_tools, enabled_tools, tags_arg) ==
    LET all_tags == TagsOf(all_tools)
        enabled_tags == IF ~tags_arg.provided THEN all_tags ELSE tags_arg.values
    IN [enabled_categories |-> enabled_tags,
        disabled_categories |-> all_tags \ enabled_tags,
        tool_names |-> [i \in 1..Len(enabled_tools) |-> enabled_tools[i].name]]

\* the tools a catalog is drawn from: the served ones, one more with two
\* tags and one without tags
ToolPool ==
    {Catalog[i] : i \in 1..Len(Catalog)}
    \cup {[name |-> "create_event", tags |-> {"calendar", "requires_confirmation"}],
          [name |-> "ping", tags |-> {}]}
TagPool == {"weather", "calendar", "requires_confirmation"}
NamePool == {"get_weather", "create_event", "delete_event"}

\* the catalogs of at most MaxTools distinct tools, in every order
Catalogs ==
    UNION {{c \in [1..n -> ToolPool] : \A i, j \in 1..n : i # j => c[i] # c[j]} :
              n \in 0..MaxTools}
Optional(pool) == {Absent} \cup {Provided(S) : S \in SUBSET pool}

\* the outcome of the call under examination
Pending == [done |-> FALSE, value |-> <<>>]
Done(value) == [done |-> TRUE, value |-> value]

\* ------------------------------------------------------ confirmation gate
\* _CONFIRM_RE: the words and the two-word phrases of the vocabulary
\* a vocabulary without the variants yep, confirmed, approved and okay
short_confirm_words == {"yes", "yeah", "confirm", "approve", "ok"}

ConfirmWords ==
    {"yes", "yeah", "yep", "confirm", "confirmed", "approve", "approved", "ok", "okay"}
ConfirmPhrases == {<<"go", "ahead">>, <<"send", "it">>, <<"do", "it">>}

RECURSIVE LastUserFrom(_, _)
LastUserFrom(conv, i) ==
    IF i = 0 THEN <<>>
    ELSE IF conv[i].role = "user" THEN OrEmpty(conv[i].content)
    ELSE LastUserFrom(conv, i - 1)

RECURSIVE FirstUserFrom(_, _)
FirstUserFrom(conv, i) ==
    IF i > Len(conv) THEN <<>>
    ELSE IF conv[i].role = "user" THEN OrEmpty(conv[i].content)
    ELSE FirstUserFrom(conv, i + 1)

\* a gate that consults the first user message instead of the most recent
first_user_message_text(conv) == FirstUserFrom(conv, 1)

\* the text of the last user-role message, scanning backward; "" when none
_last_user_message_text(conv) == LastUserFrom(conv, Len(conv))

\* _CONFIRM_RE.search(text), case-insensitive, whole words
_is_user_confirmation(text) ==
    \E i \in 1..Len(text) :
        \/ Lower(text[i]) \in ConfirmWords
        \/ i < Len(text) /\ <<Lower(text[i]), Lower(text[i + 1])>> \in ConfirmPhrases

\* the payload returned instead of the tool's when confirmation is missing
ConfirmationRequiredPayload(tool_name) ==
    JsonDumps(<< <<"status", "error">>,
                 <<"message", "User confirmation required">>,
                 <<"tool", tool_name>> >>)

\* the tool is tagged requires_confirmation and the last user message does
\* not confirm: the bridge answers for the tool
Gated(conv, tool_name) ==
    /\ "requires_confirmation" \in tool_tags_by_name(tool_name)
    /\ ~_is_user_confirmation(_last_user_message_text(conv))

\* ------------------------------------------------------------ tool results
\* A CallToolResult: structured_content and data are optional dicts, content
\* is the list of its text chunks.
NoDict == [none |-> TRUE, d |-> EmptyDict]
SomeDict(d) == [none |-> FALSE, d |-> d]

RECURSIVE JoinLines(_)
\* "\n".join(texts): each text is a token sequence
JoinLines(texts) ==
    IF texts = <<>> THEN <<>>
    ELSE IF Len(texts) = 1 THEN texts[1]
    ELSE texts[1] \o <<"\n">> \o JoinLines(Tail(texts))

_stringify_tool_result(result) ==
    IF ~result.structured_content.none THEN JsonDumps(result.structured_content.d)
    ELSE IF ~result.data.none THEN JsonDumps(result.data.d)
    ELSE LET texts == SelectSeq(result.content, LAMBDA t : t # <<>>)
         IN  IF texts # <<>> THEN JoinLines(texts) ELSE <<>>

ResultSuccess ==
    [structured_content |-> SomeDict(<< <<"status", "success">> >>),
     data |-> NoDict, content |-> <<>>]
ResultError ==
    [structured_content |-> SomeDict(<< <<"status", "error">>, <<"message", "failed">> >>),
     data |-> NoDict, content |-> <<>>]
ResultUpper ==
    [structured_content |-> NoDict,
     data |-> SomeDict(<< <<"status", "SUCCESS">> >>), content |-> <<>>]
ResultText ==
    [structured_content |-> NoDict, data |-> NoDict,
     content |-> << <<"sunny">>, <<>>, <<"and", "warm">> >>]
ResultEmpty ==
    [structured_content |-> NoDict, data |-> NoDict, content |-> <<>>]

\* what client.call_tool may return
VariedResults == {ResultSuccess, ResultError, ResultUpper, ResultText, ResultEmpty}
PlainResults == {ResultSuccess}

\* a success test that compares the status as written
PayloadSuccessExact(payload_text) ==
    LET parsed == IF payload_text # <<>> /\ JsonLoads(payload_text).ok
                  THEN JsonLoads(payload_text).value ELSE EmptyDict
    IN  DictGet(parsed, "status") = "success"

\* the payload counts as a success: it parses as JSON and its status,
\* lower-cased, is "success"
PayloadSuccess(payload_text) ==
    LET parsed == IF payload_text # <<>> /\ JsonLoads(payload_text).ok
                  THEN JsonLoads(payload_text).value ELSE EmptyDict
    IN  Lower(DictGet(parsed, "status")) = "success"

\* ---------------------------------------------------------------- messages
Message(role, content, tool_call_id, tool_calls) ==
    [role |-> role, content |-> content,
     tool_call_id |-> tool_call_id, tool_calls |-> tool_calls]

NoId == 0
SystemMessage == Message("system", Some(<<"instructions">>), NoId, <<>>)
\* _tool_availability_message
ToolAvailabilityMessage == Message("developer", Some(<<"Tool availability">>), NoId, <<>>)
SuccessNudge == Message("system", Some(<<"The tool call succeeded.">>), NoId, <<>>)
FailureNudge ==
    Message("system", Some(<<"The tool call failed or returned an error.">>), NoId, <<>>)
CapText == <<"I reached the tool-call limit while trying to finish this request.">>

\* the serialized tool call of an assistant message
ToolCall(id, name, arguments) == [id |-> id, name |-> name, arguments |-> arguments]

\* --------------------------------------------------------------- LLM output
ArgsValid == <<"{", "city", ":", "Paris", "}">>
ArgsMalformed == <<"{", "city", ":">>
ArgsEmpty == <<>>

\* one completion: its content and the calls it requests (name, arguments)
Output(content, calls) == [content |-> content, calls |-> calls]
Req(name, arguments) == [name |-> name, arguments |-> arguments]

AnswerOutput == Output(Some(<<"All", "done", ".">>), <<>>)
PlainOutput == Output(None, <<Req("get_weather", ArgsValid)>>)
VariedOutputs ==
    { AnswerOutput,
      PlainOutput,
      Output(Some(<<"Sending", "\n", "-", " ", "now">>),
             <<Req("send_gmail_draft", ArgsValid)>>),
      Output(None, <<Req("get_weather", ArgsMalformed), Req("send_gmail_draft", ArgsEmpty)>>) }

\* the ids the LLM gives the calls of its n-th completion
CallId(n, j) == 10 * n + j

\* assistant_msg.tool_calls of the n-th completion
OutputCalls(out, n) ==
    [j \in 1..Len(out.calls) |->
        ToolCall(CallId(n, j), out.calls[j].name, out.calls[j].arguments)]

\* a streamed chunk: a content delta ("" when absent) and tool-call fragments
Chunk(content, tool_calls) == [content |-> content, tool_calls |-> tool_calls]
\* a tool-call fragment of a delta; id NoId, name "" or arguments "" when absent
Fragment(index, id, name, arguments) ==
    [index |-> index, id |-> id, name |-> name, arguments |-> arguments]

\* the whole completion in one chunk
WholeChunks(out, n) ==
    << Chunk(OrEmpty(out.content),
             [j \in 1..Len(out.calls) |->
                 Fragment(j - 1, CallId(n, j), out.calls[j].name, out.calls[j].arguments)]) >>

RECURSIVE CallChunks(_, _, _)
\* per call: a fragment with id and name, then the arguments in two pieces
CallChunks(out, n, j) ==
    IF j > Len(out.calls) THEN <<>>
    ELSE LET a == out.calls[j].arguments
             h == (Len(a) + 1) \div 2
         IN  << Chunk(<<>>, <<Fragment(j - 1, CallId(n, j), out.calls[j].name, <<>>)>>),
                Chunk(<<>>, <<Fragment(j - 1, NoId, "", SubSeq(a, 1, h))>>),
                Chunk(<<>>, <<Fragment(j - 1, NoId, "", SubSeq(a, h + 1, Len(a)))>>) >>
             \o CallChunks(out, n, j + 1)

\* the completion token by token, its calls fragment by fragment
SplitChunks(out, n) ==
    [i \in 1..Len(OrEmpty(out.content)) |-> Chunk(<<OrEmpty(out.content)[i]>>, <<>>)]
    \o CallChunks(out, n, 1)

\* a function name cut in two
NameHalves(name) ==
    CASE name = "get_weather" -> <<"get_", "weather">>
      [] name = "send_gmail_draft" -> <<"send_gmail", "_draft">>
      [] OTHER -> <<name, "">>

RECURSIVE HalvedCalls(_, _, _)
\* per call: a fragment with the id and the head of the name, a fragment with
\* the rest of the name and the head of the arguments, then their rest
HalvedCalls(out, n, j) ==
    IF j > Len(out.calls) THEN <<>>
    ELSE LET a == out.calls[j].arguments
             h == (Len(a) + 1) \div 2
             halves == NameHalves(out.calls[j].name)
         IN  << Chunk(<<>>, <<Fragment(j - 1, CallId(n, j), halves[1], <<>>)>>),
                Chunk(<<>>, <<Fragment(j - 1, NoId, halves[2], SubSeq(a, 1, h))>>),
                Chunk(<<>>, <<Fragment(j - 1, NoId, "", SubSeq(a, h + 1, Len(a)))>>) >>
             \o HalvedCalls(out, n, j + 1)

\* the fragments of two calls taking turns, those of the second call first
InterleavedCalls(out, n) ==
    IF Len(out.calls) # 2 THEN CallChunks(out, n, 1)
    ELSE LET both == CallChunks(out, n, 1)
         IN  [i \in 1..6 |-> IF i % 2 = 1 THEN both[3 + (i + 1) \div 2]
                             ELSE both[i \div 2]]

\* the ways a completion is cut into the chunks of its stream
FragmentStyles == {"whole", "split", "halved", "interleaved"}
StyleChunks(out, n, style) ==
    CASE style = "whole" -> WholeChunks(out, n)
      [] style = "split" -> SplitChunks(out, n)
      [] style = "halved" ->
             [i \in 1..Len(OrEmpty(out.content)) |-> Chunk(<<OrEmpty(out.content)[i]>>, <<>>)]
             \o HalvedCalls(out, n, 1)
      [] OTHER ->
             [i \in 1..Len(OrEmpty(out.content)) |-> Chunk(<<OrEmpty(out.content)[i]>>, <<>>)]
             \o InterleavedCalls(out, n)

RECURSIVE TextChunks(_, _, _)
\* an answer text streamed in deltas that end at the places of cuts
TextChunks(text, cuts, from) ==
    IF from > Len(text) THEN <<>>
    ELSE LET ends == {c \in cuts : c >= from} \cup {Len(text)}
             to == CHOOSE c \in ends : \A d \in ends : c <= d
         IN  <<Chunk(SubSeq(text, from, to), <<>>)>> \o TextChunks(text, cuts, to + 1)

\* answer texts: prose lines, list blocks, an unfinished last line, a
\* trailing blank, a long sentence
SpeechTexts ==
    { <<"a", "\n", "a">>,
      <<"a", ":", "\n", "-", " ", "b", "\n", "-", " ", "c", "\n", "\n", "d", ".", "\n">>,
      <<"-", " ", "b", "\n", "-", " ", "c", "\n", "\n">>,
      <<"a", ".", "\n", "1", ".", " ", "b", "\n", "2", ".", " ", "c", "\n", "\n", "d">>,
      <<"a", ".", "\n", "-", " ", "b", "\n", "-", " ", "c">>,
      <<"a", ".", "\n", " ">>,
      <<"L", ".", " ", "b">>,
      <<"a", ".", " ", "b", ".", "\n", "c">> }

\* the ways to cut a text at no more than MaxCuts places
CutSets(text) == {S \in SUBSET (1..(Len(text) - 1)) : Cardinality(S) <= MaxCuts}

\* ------------------------------------------------------------ session store
ChatTurn(role, content, tool_call_id, tool_calls) ==
    [role |-> role, content |-> content,
     tool_call_id |-> tool_call_id, tool_calls |-> tool_calls]

\* ChatTurn.to_message
to_message(turn) == Message(turn.role, turn.content, turn.tool_call_id, turn.tool_calls)

\* session_store.append_turn
append_turn(ts, role, content, tool_call_id, tool_calls) ==
    Append(ts, ChatTurn(role, content, tool_call_id, tool_calls))

\* session_store.trim_history: keep the most recent max_turns turns
trim_history(ts) ==
    IF Len(ts) > max_turns THEN SubSeq(ts, Len(ts) - max_turns + 1, Len(ts)) ELSE ts

\* ChatAgent(): the agent of the server is built without a context prefix
context_prefix == <<>>

RECURSIVE StoreFrom(_, _, _)
\* ChatAgent.respond: append conversation[start:] to the session, skipping
\* the messages of role system (i is the 1-based position start + 1)
StoreFrom(ts, conv, i) ==
    IF i > Len(conv) THEN ts
    ELSE IF conv[i].role = "system" THEN StoreFrom(ts, conv, i + 1)
    ELSE StoreFrom(append_turn(ts, conv[i].role, conv[i].content,
                               conv[i].tool_call_id, conv[i].tool_calls),
                   conv, i + 1)

\* the conversation before the first LLM call
BuildConversation(messages) ==
    <<SystemMessage>> \o context_prefix \o messages \o <<ToolAvailabilityMessage>>

\* ------------------------------------------------------------- SSE events
\* round and call are the LLM call and the tool-call id the event belongs to
Event(type, round, call, name, text) ==
    [type |-> type, round |-> round, call |-> call, name |-> name, text |-> text]

\* ------------------------------------------------------- speech segmenter
\* Assistant text is a sequence of atoms: the characters "\n", " ", ".",
\* "!", "?", ":", "-", "*", "#", "_", the digits, the closing quotes and
\* brackets, and words.  A word atom stands for its letters; every atom
\* counts as one character except LongWord.  Texts hold no back quote and
\* no "@", so the code-fence and the e-mail rewriting never apply.
Whitespace == {" ", "\n"}
SentenceEnd == {".", "!", "?"}
Digits == {"0", "1", "2", "3", "4", "5", "6", "7", "8", "9"}
Bullets == {"-", "*"}
Closers == {"\"", "'", ")", "]", "}"}

\* len(seg) < 60: a sentence chunk shorter than this is carried
min_sentence_len == 60
\* len(joined) >= 160: a prose block this long is cut without punctuation
min_block_len == 160

\* a word of min_sentence_len letters
LongWord == "L"
AtomLen(c) == IF c = LongWord THEN min_sentence_len ELSE 1

RECURSIVE TextLen(_)
TextLen(s) == IF s = <<>> THEN 0 ELSE AtomLen(s[1]) + TextLen(Tail(s))

Max(S) == CHOOSE x \in S : \A y \in S : y <= x
Min(S) == CHOOSE x \in S : \A y \in S : x <= y

RECURSIVE LStrip(_)
LStrip(s) == IF s # <<>> /\ s[1] \in Whitespace THEN LStrip(Tail(s)) ELSE s

RECURSIVE RStrip(_)
RStrip(s) ==
    IF s # <<>> /\ s[Len(s)] \in Whitespace THEN RStrip(SubSeq(s, 1, Len(s) - 1)) ELSE s

\* str.strip
Strip(s) == LStrip(RStrip(s))

RECURSIVE Split(_)
\* str.split("\n")
Split(s) ==
    LET N == {i \in 1..Len(s) : s[i] = "\n"}
    IN  IF N = {} THEN <<s>>
        ELSE <<SubSeq(s, 1, Min(N) - 1)>> \o Split(SubSeq(s, Min(N) + 1, Len(s)))

RECURSIVE Join(_, _)
\* sep.join(parts)
Join(parts, sep) ==
    IF parts = <<>> THEN <<>>
    ELSE IF Len(parts) = 1 THEN parts[1]
    ELSE parts[1] \o sep \o Join(Tail(parts), sep)

RECURSIVE DigitRun(_)
\* the number of leading digits
DigitRun(s) == IF s # <<>> /\ s[1] \in Digits THEN 1 + DigitRun(Tail(s)) ELSE 0

\* the length of the list marker s starts with, [-*] or \d+[.)], 0 when none
MarkerLen(s) ==
    IF s = <<>> THEN 0
    ELSE IF s[1] \in Bullets THEN 1
    ELSE LET d == DigitRun(s)
         IN  IF d >= 1 /\ d < Len(s) /\ s[d + 1] \in {".", ")"} THEN d + 1 ELSE 0

\* _LIST_ITEM_RE.match(line): blanks, a marker, at least one blank, the item
IsListItem(line) ==
    LET t == LStrip(line)
        m == MarkerLen(t)
    IN  m > 0 /\ m < Len(t) /\ t[m + 1] \in Whitespace

\* m.group(1).strip()
ItemText(line) ==
    LET t == LStrip(line)
    IN  Strip(SubSeq(t, MarkerLen(t) + 2, Len(t)))

\* _LIST_START_RE.search(buffer): a marker preceded on its line by blanks
\* only and followed by a blank
_has_list_start(buffer) ==
    \E p \in 1..Len(buffer) :
        LET m == MarkerLen(SubSeq(buffer, p, Len(buffer)))
            L == {q \in 1..(p - 1) : buffer[q] \notin Whitespace}
            B == {q \in 1..(p - 1) : buffer[q] = "\n"}
        IN  /\ m > 0
            /\ p + m <= Len(buffer)
            /\ buffer[p + m] \in Whitespace
            /\ L = {} \/ (B # {} /\ Max(B) > Max(L))

NumeralAtoms == <<"1", "2", "3", "4", "5", "6", "7", "8", "9">>
RECURSIVE Numeral(_)
\* str(n) for n >= 1
Numeral(n) ==
    IF n < 10 THEN <<NumeralAtoms[n]>>
    ELSE Numeral(n \div 10) \o <<IF n % 10 = 0 THEN "0" ELSE NumeralAtoms[n % 10]>>

\* the blocks _extract_speak_segments carries from line to line
Blocks(segments, text_lines, list_items, in_list) ==
    [segments |-> segments, current_text_lines |-> text_lines,
     current_list_items |-> list_items, in_list |-> in_list]

\* flush_text, once the lines are joined
FlushJoined(b, force, joined) ==
    IF joined = <<>> THEN [b EXCEPT !.current_text_lines = <<>>]
    ELSE IF \/ force
            \/ TextLen(joined) >= min_block_len
            \/ joined[Len(joined)] \in SentenceEnd \cup {":"}
         THEN [b EXCEPT !.segments = Append(@, joined), !.current_text_lines = <<>>]
    ELSE b

\* flush_text
flush_text(b, force) ==
    IF b.current_text_lines = <<>> THEN b
    ELSE FlushJoined(b, force, Strip(Join(b.current_text_lines, <<"\n">>)))

\* flush_list
flush_list(b, force) ==
    IF b.current_list_items = <<>> THEN [b EXCEPT !.in_list = FALSE]
    ELSE IF force \/ Len(b.current_list_items) >= 2
         THEN [b EXCEPT
                  !.segments =
                      Append(@, Strip(Join([i \in 1..Len(b.current_list_items) |->
                                               <<"-", " ">> \o b.current_list_items[i]],
                                           <<"\n">>))),
                  !.current_list_items = <<>>,
                  !.in_list = FALSE]
    ELSE b

\* a list line: pending prose is flushed, the item joins the list
AddItem(b, raw) ==
    [b EXCEPT !.in_list = TRUE, !.current_list_items = Append(@, ItemText(raw))]

\* a prose line: it joins the pending prose, which a sentence end may flush
AddText(b, raw) ==
    IF raw[Len(raw)] \in SentenceEnd
    THEN flush_text([b EXCEPT !.current_text_lines = Append(@, raw)], FALSE)
    ELSE [b EXCEPT !.current_text_lines = Append(@, raw)]

\* the body of the loop over the completed lines, raw = ln.rstrip()
TakeRaw(b, raw) ==
    IF Strip(raw) = <<>> THEN flush_text(flush_list(b, TRUE), TRUE)
    ELSE IF IsListItem(raw) THEN AddItem(flush_text(b, TRUE), raw)
    ELSE AddText(IF b.in_list THEN flush_list(b, TRUE) ELSE b, raw)

TakeLine(b, ln) == TakeRaw(b, RStrip(ln))

RECURSIVE TakeLines(_, _)
TakeLines(b, lines) ==
    IF lines = <<>> THEN b ELSE TakeLines(TakeLine(b, lines[1]), Tail(lines))

\* the remainder: the blocks still pending and the unfinished last line
Rebuilt(b, tail) ==
    LET pending_list ==
            IF b.in_list /\ b.current_list_items # <<>>
            THEN << Join([i \in 1..Len(b.current_list_items) |->
                             Numeral(i) \o <<".", " ">> \o b.current_list_items[i]],
                         <<"\n">>) >>
            ELSE <<>>
        pending_text ==
            IF b.current_text_lines # <<>>
            THEN << Join(b.current_text_lines, <<"\n">>) >>
            ELSE <<>>
    IN  [segments |-> b.segments,
         remainder |-> Join(pending_list \o pending_text \o <<tail>>, <<"\n">>)]

\* _extract_speak_segments, once the buffer is split into lines
SegmentsOf(buffer, lines) ==
    IF Len(lines) = 1 THEN [segments |-> <<>>, remainder |-> buffer]
    ELSE Rebuilt(TakeLines(Blocks(<<>>, <<>>, <<>>, FALSE),
                           SubSeq(lines, 1, Len(lines) - 1)),
                 lines[Len(lines)])

\* _extract_speak_segments: the segments cut and the new remainder
_extract_speak_segments(buffer) ==
    IF buffer = <<>> THEN [segments |-> <<>>, remainder |-> buffer]
    ELSE SegmentsOf(buffer, Split(buffer))

RECURSIVE CloserRun(_, _)
\* end of the run of closing quotes and brackets that starts at position e
CloserRun(buffer, e) ==
    IF e <= Len(buffer) /\ buffer[e] \in Closers THEN CloserRun(buffer, e + 1) ELSE e

\* chunks.append(chunk) unless the stripped chunk is empty
Keep(chunks, chunk) == IF chunk = <<>> THEN chunks ELSE Append(chunks, chunk)

RECURSIVE ScanChunks(_, _, _, _)
\* the while loop of _extract_complete_chunks from position i
ScanChunks(buffer, i, start, chunks) ==
    IF i > Len(buffer)
    THEN [chunks |-> chunks, remainder |-> SubSeq(buffer, start, Len(buffer))]
    ELSE IF buffer[i] = "\n"
         THEN ScanChunks(buffer, i + 1, i + 1,
                         Keep(chunks, Strip(SubSeq(buffer, start, i - 1))))
    ELSE IF buffer[i] \in SentenceEnd
         THEN ScanChunks(buffer, i + 1, CloserRun(buffer, i + 1),
                         Keep(chunks,
                              Strip(SubSeq(buffer, start, CloserRun(buffer, i + 1) - 1))))
    ELSE ScanChunks(buffer, i + 1, start, chunks)

\* _extract_complete_chunks
_extract_complete_chunks(buffer) == ScanChunks(buffer, 1, 1, <<>>)

RECURSIVE DropAtoms(_, _)
\* str.replace(c, "") for every atom c of S
DropAtoms(s, S) ==
    IF s = <<>> THEN <<>>
    ELSE IF s[1] \in S THEN DropAtoms(Tail(s), S)
    ELSE <<s[1]>> \o DropAtoms(Tail(s), S)

RECURSIVE HashRun(_)
HashRun(s) == IF s # <<>> /\ s[1] = "#" THEN 1 + HashRun(Tail(s)) ELSE 0

\* _HEADER_RE: one to six "#" and a blank are taken from the line
Unheaded(ln) ==
    LET h == HashRun(ln)
    IN  IF h >= 1 /\ h <= 6 /\ h < Len(ln) /\ ln[h + 1] \in Whitespace
        THEN Strip(SubSeq(ln, h + 2, Len(ln)))
        ELSE ln

\* the items collected so far, as one output line
ItemsLine(items) ==
    IF items = <<>> THEN <<>>
    ELSE << Join(items, <<",", " ", "then", " ">>) >>

RECURSIVE SpokenLines(_, _, _)
\* the body of the loop for a line whose header marks are taken
SpokenLine(rest, items, out_lines, ln) ==
    IF IsListItem(ln)
    THEN SpokenLines(rest, Append(items, ItemText(ln)), out_lines)
    ELSE SpokenLines(rest, <<>>,
                     out_lines \o ItemsLine(items) \o <<DropAtoms(ln, {"*", "_"})>>)

\* the loop of _normalize_for_tts_fast over the non-blank lines
SpokenLines(lines, items, out_lines) ==
    IF lines = <<>> THEN out_lines \o ItemsLine(items)
    ELSE SpokenLine(Tail(lines), items, out_lines, Unheaded(lines[1]))

RECURSIVE Collapse(_)
\* re.sub(r"\s+", " ", s)
Collapse(s) ==
    IF s = <<>> THEN <<>>
    ELSE IF s[1] \in Whitespace
         THEN <<" ">> \o Collapse(LStrip(s))
    ELSE <<s[1]>> \o Collapse(Tail(s))

\* a text in a list of its own, no list for the empty text
IfText(text) == IF text = <<>> THEN <<>> ELSE <<text>>

RECURSIVE NonBlank(_)
\* [ln.strip() for ln in lines if ln.strip()]
NonBlank(lines) ==
    IF lines = <<>> THEN <<>>
    ELSE IfText(Strip(lines[1])) \o NonBlank(Tail(lines))

\* _normalize_for_tts_fast, s = text.strip()
Normalized(s) ==
    IF s = <<>> THEN <<>>
    ELSE Strip(Collapse(Join(SpokenLines(NonBlank(Split(s)), <<>>, <<>>), <<" ">>)))

\* _normalize_for_tts_fast
_normalize_for_tts_fast(text) == Normalized(Strip(text))

RECURSIVE SpokenOf(_)
\* the segments as handed to synthesis: normalized, the empty ones skipped
SpokenOf(segs) ==
    IF segs = <<>> THEN <<>>
    ELSE IfText(_normalize_for_tts_fast(segs[1])) \o SpokenOf(Tail(segs))

RECURSIVE MergeChunks(_, _, _)
\* run_stream, sentence fallback: a chunk with the carry before it is carried
\* on while shorter than min_sentence_len, spoken otherwise
MergeSeg(rest, spoken, seg) ==
    IF TextLen(seg) < min_sentence_len
    THEN MergeChunks(rest, seg, spoken)
    ELSE MergeChunks(rest, <<>>, spoken \o SpokenOf(<<seg>>))

\* f"{carry} {seg}".strip() for a stripped chunk that is not empty
Carried(carry, seg) ==
    IF seg = <<>> \/ carry = <<>> THEN seg ELSE Strip(carry \o <<" ">> \o seg)

\* run_stream, sentence fallback: the loop over the chunks
MergeChunks(chunks, carry, spoken) ==
    IF chunks = <<>> THEN [spoken |-> spoken, carry |-> carry]
    ELSE IF Strip(chunks[1]) = <<>> THEN MergeChunks(Tail(chunks), carry, spoken)
    ELSE MergeSeg(Tail(chunks), spoken, Carried(carry, Strip(chunks[1])))

\* run_stream, sentence fallback: the carry goes back in front of the buffer
PutBack(m, remainder) ==
    [spoken |-> m.spoken,
     speech_buffer |-> IF m.carry # <<>>
                       THEN Strip(m.carry \o <<" ">> \o remainder)
                       ELSE remainder]

\* run_stream, sentence fallback on the chunks c
Fallback(c) == PutBack(MergeChunks(c.chunks, <<>>, <<>>), c.remainder)

\* run_stream, text_delta, once the segments e are extracted
Extracted(e) ==
    IF e.segments = <<>> /\ e.remainder # <<>> /\ ~_has_list_start(e.remainder)
    THEN Fallback(_extract_complete_chunks(e.remainder))
    ELSE [spoken |-> SpokenOf(e.segments), speech_buffer |-> e.remainder]

\* run_stream, text_delta: the texts handed to synthesis and the new buffer
TextDelta(buffer, chunk) == Extracted(_extract_speak_segments(buffer \o chunk))

\* a flush that speaks the segments and forgets the remainder
FlushSegmentsOnly(buffer) ==
    IF Strip(buffer) = <<>> THEN <<>>
    ELSE SpokenOf(_extract_speak_segments(buffer \o <<"\n">>).segments)

\* the segments of a flush and then its stripped remainder
WithRemainder(e) == Append(e.segments, Strip(e.remainder))

\* run_stream, tool_call_start and done: what a non-blank buffer hands to
\* synthesis, its segments first and then the remainder
ForceFlush(buffer) ==
    IF Strip(buffer) = <<>> THEN <<>>
    ELSE SpokenOf(WithRemainder(_extract_speak_segments(buffer \o <<"\n">>)))

\* ------------------------------------------------------------------- state
VARIABLES
    variety,            \* departures from plain behaviour the session allows
    maxReq,             \* requests the session receives
    varied,             \* departures from plain behaviour so far
    turns,              \* session.turns of the one session
    requests,           \* requests started so far
    mode,               \* "buffered" (ChatAgent.respond) or "streaming" (SSE)
    pc,                 \* "idle", "llm", "stream", "tool", "toolwait"
    conversation,       \* the bridge's conversation
    historical_count,   \* ChatAgent.respond: len(session_messages)
    tool_summaries,
    loop_count,
    full_text,          \* the bridge's full_text (streaming)
    current_content,
    current_tool_calls, \* index -> [id, name, arguments]
    stream,             \* chunks the open LLM stream has still to deliver
    calls,              \* the tool calls of the round being executed
    callIdx,            \* position of the for loop in calls
    args,               \* parsed arguments of the call being executed
    tool_success,
    d_full_text,        \* generate(): full_text
    d_tool_calls,       \* generate(): tool_calls
    speech_buffer,      \* generate(): text not yet handed to synthesis
    sse,                \* what the client has received
    llmCalls,           \* LLM calls of this turn
    llmTotal,           \* LLM calls of the session
    replies,            \* what the LLM and the tools have returned in this turn
    invoked,            \* calls made on the tool server this turn
    outcome,            \* how the turn ended
    driver,             \* generate(): the event loop, next_task and the generators
    segs,               \* run_stream: the segments of the extraction examined
    yields,             \* run_stream: the events it yields, and how many it has yielded
    keepAlives,         \* keep-alive comments of this turn
    tools,              \* _filter_tools: the catalog handed in
    allowed_names,      \* _filter_tools: the optional arguments
    allowed_tags,
    required_tags,
    filtered,           \* _filter_tools: the list returned
    synthesized,        \* _text_to_speech: the calls of this turn
    _sessions,          \* session_store._sessions: session id -> session
    _thread_local,      \* user_context._thread_local: thread -> timezone_name
    clients,            \* the requests the server's worker threads work on
    accesses            \* session id -> the clients that read or appended its turns

vars == <<variety, maxReq, varied, turns, requests, mode, pc, conversation,
          historical_count, tool_summaries, loop_count, full_text,
          current_content, current_tool_calls, stream, calls, callIdx, args,
          tool_success, d_full_text, d_tool_calls, speech_buffer, sse, llmCalls,
          llmTotal, replies, invoked, outcome, driver, segs, yields, keepAlives, tools, allowed_names,
          allowed_tags, required_tags, filtered, synthesized, _sessions,
          _thread_local, clients, accesses>>

\* the call of _filter_tools
filterVars == <<tools, allowed_names, allowed_tags, required_tags, filtered>>
\* the state the server's worker threads share
threadVars == <<_sessions, _thread_local, clients, accesses>>
\* what the steps of one turn leave alone
scenario == <<variety, maxReq, filterVars, threadVars, segs, yields>>
\* locals of the streamed round
roundVars == <<current_content, current_tool_calls, stream>>
\* locals of the tool loop
loopVars == <<calls, callIdx, args, tool_success>>

Modes == {"buffered", "streaming"}
UserTexts == {<<"create", "the", "event">>, <<"Yes", ",", "go", "ahead">>}

\* a history a streaming turn leaves behind: the user turn and the full text
PriorHistory ==
    << ChatTurn("user", Some(<<"okay">>), NoId, <<>>),
       ChatTurn("assistant", Some(<<"All", "done", ".">>), NoId, <<>>) >>

Running == [kind |-> "running", text |-> None]
Returned(text) == [kind |-> "returned", text |-> text]
Raised == [kind |-> "raised", text |-> None]
\* generate() was closed before the turn was over
Closed == [kind |-> "closed", text |-> None]

\* rounds after which the plain LLM may answer
AnswerAt == {0, 2}

\* the plain LLM requests the plain call, or answers
PlainOutputs == {PlainOutput} \cup (IF loop_count \in AnswerAt THEN {AnswerOutput} ELSE {})

\* the first round of the session is still running
FirstRound == llmTotal <= 1

\* a collaborator may depart from its plain behaviour n more times
MayVary(n) == n = 0 \/ (FirstRound /\ varied + n <= variety)

OutputCost(out) == IF out \in PlainOutputs THEN 0 ELSE 1
ResultCost(result) == IF result \in PlainResults THEN 0 ELSE 1
StyleCost(style) == IF style = "whole" THEN 0 ELSE 1
\* speech synthesis raises on the calls of failed
TtsCost(failed) == IF failed = {} THEN 0 ELSE 1

\* a turn that runs without the stream driver
NoDriver ==
    [loop |-> "none", next_task |-> "none", async_gen |-> "none", bridge |-> "none"]

\* generate() has made the loop, run_stream() and the task of its __anext__;
\* the task waits on what the bridge awaits
Created ==
    [loop |-> "open", next_task |-> "pending", async_gen |-> "running",
     bridge |-> "running"]

\* the task has handed over an event: both generators stand at a yield
Yielded ==
    [Created EXCEPT !.next_task = "done", !.async_gen = "suspended",
                    !.bridge = "suspended"]

\* the task ended with StopAsyncIteration or with the exception a
\* collaborator raised: both generators have run to their end
Exhausted ==
    [Created EXCEPT !.next_task = "done", !.async_gen = "closed", !.bridge = "closed"]

\* 1) async_gen.aclose(): closes run_stream standing at a yield; on a
\* generator that is running it raises RuntimeError, which is swallowed
aclose(d) ==
    IF d.async_gen = "suspended" THEN [d EXCEPT !.async_gen = "closed"] ELSE d

\* a cleanup that leaves the pending task alone
leave_pending(d) == d

\* 2) every task of the loop still pending is cancelled and awaited: the
\* CancelledError ends run_stream and the bridge at what they await
cancel_pending(d) ==
    IF d.next_task = "pending"
    THEN [d EXCEPT !.next_task = "cancelled", !.async_gen = "closed",
                   !.bridge = "closed"]
    ELSE d

\* a cleanup that finalizes no generator
keep_asyncgens(d) == d

\* 3) loop.shutdown_asyncgens(): closes the generators still standing at a
\* yield (the bridge, which run_stream's async for does not close)
shutdown_asyncgens(d) ==
    [d EXCEPT !.async_gen = IF @ = "suspended" THEN "closed" ELSE @,
              !.bridge = IF @ = "suspended" THEN "closed" ELSE @]

\* 4) loop.close()
close(d) == [d EXCEPT !.loop = "closed"]

\* the finally block of generate()
Cleanup(d) == close(shutdown_asyncgens(cancel_pending(aclose(d))))

\* a driver that stores what was streamed however it is left
store_always(ts, text, completed) ==
    IF text # <<>> THEN append_turn(ts, "assistant", Some(text), NoId, <<>>) ELSE ts

\* generate() after the driver: the assistant turn is stored when the loop
\* was left by its break; a GeneratorExit or an exception passes it by
store_response(ts, text, completed) ==
    IF completed /\ text # <<>>
    THEN append_turn(ts, "assistant", Some(text), NoId, <<>>)
    ELSE ts

\* the collaborators have returned nothing yet
NoReplies == [outs |-> <<>>, results |-> <<>>]

\* a run_stream that is not under examination
Unscripted == [events |-> <<>>, count |-> 0]

\* the locals of a turn not yet started
InitDriven ==
    /\ varied = 0
    /\ pc = "idle"
    /\ conversation = <<>>
    /\ historical_count = 0
    /\ tool_summaries = <<>>
    /\ loop_count = 0
    /\ full_text = <<>>
    /\ current_content = <<>>
    /\ current_tool_calls = <<>>
    /\ stream = <<>>
    /\ calls = <<>>
    /\ callIdx = 0
    /\ args = EmptyDict
    /\ tool_success = FALSE
    /\ d_full_text = <<>>
    /\ d_tool_calls = <<>>
    /\ sse = <<>>
    /\ llmCalls = 0
    /\ llmTotal = 0
    /\ replies = NoReplies
    /\ invoked = <<>>
    /\ outcome = [kind |-> "none", text |-> None]
    /\ keepAlives = 0
    /\ requests = 0
    /\ synthesized = <<>>
    /\ driver = NoDriver
    /\ segs = Pending

\* the locals of a turn not yet started, the speech buffer apart
InitTurn == InitDriven /\ mode = "buffered" /\ yields = Unscripted

InitLocals == InitTurn /\ speech_buffer = <<>>

\* the requests restrict nothing: the bridge enables the whole catalog
Unrestricted ==
    /\ tools = Catalog
    /\ allowed_names = Absent
    /\ allowed_tags = Absent
    /\ required_tags = Absent
    /\ filtered = Done(_filter_tools(Catalog, Absent, Absent, Absent))

\* the worker threads of the server, and the requests they take
Threads == 1..MaxClients
Clients == 1..MaxClients
SessionIds == {"s1", "s2"}
NoZone == "none"
Timezones == {NoZone, "Asia/Tokyo", "Europe/Paris"}
ValidZones == {"America/Chicago", "Asia/Tokyo", "Europe/Paris"}
\* the thread of a request no worker has taken yet
NoThread == Min(Threads) - 1

\* a session id _sessions has no entry for, and a ChatSession
NoSession == [made |-> FALSE, turns |-> <<>>]
ChatSession(ts) == [made |-> TRUE, turns |-> ts]

\* a request not yet received
Waiting ==
    [pc |-> "new", session_id |-> "", timezone_name |-> NoZone, thread |-> NoThread,
     history_messages |-> <<>>, tz |-> NoZone]

\* the server right after start: no session, no thread has set a timezone
Quiet ==
    /\ _sessions = [s \in SessionIds |-> NoSession]
    /\ _thread_local = [t \in Threads |-> NoZone]
    /\ clients = [c \in Clients |-> Waiting]
    /\ accesses = [s \in SessionIds |-> <<>>]

\* one request on a session that is new or holds an earlier streamed turn
Init ==
    /\ Quiet
    /\ Unrestricted
    /\ variety = MaxVaried
    /\ maxReq = 1
    /\ turns \in {<<>>, PriorHistory}
    /\ InitLocals

\* several requests on a new session, plain collaborators
InitSession ==
    /\ Quiet
    /\ Unrestricted
    /\ variety = 0
    /\ maxReq = MaxRequests
    /\ turns = <<>>
    /\ InitLocals

\* ----------------------------------------------------------------- actions
\* A request arrives.  Buffered: ChatAgent.respond up to the first LLM call.
\* Streaming: chat_stream_endpoint.generate up to the first LLM call.
StartRequest(m, text) ==
    /\ pc = "idle"
    /\ requests < maxReq
    /\ LET appended == append_turn(turns, "user", Some(text), NoId, <<>>)
           ts1 == IF m = "buffered" THEN trim_history(appended) ELSE appended
           messages == [i \in 1..Len(ts1) |-> to_message(ts1[i])]
       IN  /\ turns' = ts1
           /\ historical_count' = Len(messages)
           /\ conversation' = BuildConversation(messages)
    /\ mode' = m
    /\ requests' = requests + 1
    /\ pc' = "llm"
    /\ sse' = IF m = "streaming" THEN <<Event("open", 0, NoId, "", <<>>)>> ELSE <<>>
    /\ tool_summaries' = <<>>
    /\ loop_count' = 0
    /\ full_text' = <<>>
    /\ current_content' = <<>>
    /\ current_tool_calls' = <<>>
    /\ stream' = <<>>
    /\ calls' = <<>>
    /\ callIdx' = 0
    /\ args' = EmptyDict
    /\ tool_success' = FALSE
    /\ d_full_text' = <<>>
    /\ d_tool_calls' = <<>>
    /\ speech_buffer' = <<>>
    /\ llmCalls' = 0
    /\ invoked' = <<>>
    /\ outcome' = Running
    /\ keepAlives' = 0
    /\ synthesized' = <<>>
    /\ driver' = IF m = "streaming" THEN Created ELSE NoDriver
    /\ replies' = NoReplies
    /\ UNCHANGED <<scenario, varied, llmTotal>>

\* The buffered bridge returns; ChatAgent.respond stores the new messages,
\* trims the history and returns the text.
FinishBuffered(conv, sums, content, v0) ==
    /\ turns' = trim_history(
           StoreFrom(turns, conv, 1 + Len(context_prefix) + historical_count + 1))
    /\ outcome' = Returned(content)
    /\ pc' = "idle"
    /\ conversation' = conv
    /\ tool_summaries' = sums
    /\ varied' = v0
    /\ UNCHANGED <<d_full_text, d_tool_calls, speech_buffer, sse, synthesized, driver>>

\* _text_to_speech called on each text of spoken, every call inside a try of
\* its own: the calls of failed raise, the others return audio
EachGuarded(spoken, failed) ==
    [i \in 1..Len(spoken) |-> [text |-> spoken[i], ok |-> i \notin failed]]

\* _text_to_speech called on the texts of spoken inside one try: the first
\* call that raises ends the calls
OneGuard(spoken, failed) ==
    IF failed = {} THEN EachGuarded(spoken, {})
    ELSE SubSeq(EachGuarded(spoken, failed), 1, Min(failed))

\* the texts of the calls that returned audio
Audible(tts_calls) ==
    LET returned == SelectSeq(tts_calls, LAMBDA c : c.ok)
    IN  [i \in 1..Len(returned) |-> returned[i].text]

\* the audio events of a flush, last segment first
AudioEventsReversed(spoken) ==
    [i \in 1..Len(spoken) |->
        Event("audio", llmCalls, NoId, "", spoken[Len(spoken) + 1 - i])]

\* run_stream: one audio event for each text synthesis returned audio for
AudioEvents(spoken) ==
    [i \in 1..Len(spoken) |-> Event("audio", llmCalls, NoId, "", spoken[i])]

\* The streaming bridge yields done: run_stream flushes a non-blank speech
\* buffer (each synthesis guarded on its own) and clears it, the driver
\* cleans up, generate() stores the full text and emits done.
Finished(conv, sums, sse0, buf0, syn0, v0, spoken) ==
    \E failed \in SUBSET (1..Len(spoken)) :
        LET cost == TtsCost(failed)
            flushed == sse0 \o AudioEvents(Audible(EachGuarded(spoken, failed)))
        IN  /\ cost = 0 \/ (FirstRound /\ v0 + cost <= variety)
            /\ varied' = v0 + cost
            /\ synthesized' = syn0 \o EachGuarded(spoken, failed)
            /\ d_full_text' = full_text
            /\ d_tool_calls' = sums
            /\ speech_buffer' = IF Strip(buf0) # <<>> THEN <<>> ELSE buf0
            /\ turns' = store_response(turns, full_text, TRUE)
            /\ driver' = Cleanup(Exhausted)
            /\ sse' = Append(flushed, Event("done", llmCalls, NoId, "", full_text))
            /\ outcome' = Returned(None)
            /\ pc' = "idle"
            /\ conversation' = conv
            /\ tool_summaries' = sums

\* the end of a streaming turn, with the final flush of its speech buffer
FinishStreaming(conv, sums, sse0, buf0, syn0, v0) ==
    Finished(conv, sums, sse0, buf0, syn0, v0, ForceFlush(buf0))

\* An exception leaves the turn: out of ChatAgent.respond, or out of
\* generate() after the driver's cleanup.  Nothing more is stored or emitted.
Escape ==
    /\ MayVary(1)
    /\ varied' = varied + 1
    /\ outcome' = Raised
    /\ pc' = "idle"
    /\ driver' = IF mode = "streaming" THEN Cleanup(Exhausted) ELSE driver
    /\ UNCHANGED <<turns, conversation, tool_summaries, d_full_text, d_tool_calls,
                   speech_buffer, sse, synthesized>>

\* The client goes away and generate() is closed at a yield of the driver:
\* at the keep-alive comment, the task of the next event still pending, or
\* at an event it forwards.  The finally block runs; what follows the driver
\* in generate() does not.
Disconnect(at) ==
    /\ mode = "streaming"
    /\ pc # "idle"
    /\ driver.loop = "open"
    /\ IF at = "keep-alive" THEN pc \in {"llm", "stream", "toolwait"}
       ELSE /\ pc \in {"llm", "stream", "tool"}
            /\ sse[Len(sse)].type \notin {"open", "keep-alive"}
    /\ driver' = Cleanup(IF at = "keep-alive" THEN Created ELSE Yielded)
    /\ pc' = IF driver'.bridge = "closed" THEN "idle" ELSE pc
    /\ turns' = store_response(turns, full_text, FALSE)
    /\ outcome' = Closed
    /\ UNCHANGED <<scenario, varied, requests, mode, conversation, historical_count,
                   tool_summaries, loop_count, full_text, roundVars, loopVars,
                   d_full_text, d_tool_calls, speech_buffer, sse, llmCalls, llmTotal, replies,
                   invoked, keepAlives, synthesized>>

\* a cap tested one round late
CapReachedLate(n) == n > max_tool_loops

\* loop_count >= max_tool_loops, tested after the round's increment
CapReached(n) == n >= max_tool_loops

\* a tool loop that handles the first requested call only
OnlyFirstCall(idx, tool_calls) == FALSE

\* the for loop over the round's tool calls has a further call to take
HasNextCall(idx, tool_calls) == idx < Len(tool_calls)

\* a nudge that takes the place of the nudges of the earlier rounds
replace_nudge(conv, succ) ==
    Append(SelectSeq(conv, LAMBDA m : m \notin {SuccessNudge, FailureNudge}),
           IF succ THEN SuccessNudge ELSE FailureNudge)

\* conversation.append of the system nudge that closes a tool round
append_nudge(conv, succ) ==
    Append(conv, IF succ THEN SuccessNudge ELSE FailureNudge)

\* The round's tool calls are done: the nudge, the loop counter, the cap.
EndRound(conv1, sums1, succ1, sse1, buf0, syn0, dtc1, v0) ==
    LET conv2 == append_nudge(conv1, succ1)
    IN  /\ loop_count' = loop_count + 1
        /\ tool_success' = succ1
        /\ callIdx' = callIdx
        /\ IF CapReached(loop_count + 1)
           THEN IF mode = "buffered"
                THEN FinishBuffered(conv2, sums1, Some(CapText), v0)
                ELSE FinishStreaming(
                         conv2, sums1,
                         Append(sse1, Event("error", llmCalls, NoId, "",
                                            <<"Tool call limit reached">>)),
                         buf0, syn0, v0)
           ELSE /\ pc' = "llm"
                /\ conversation' = conv2
                /\ tool_summaries' = sums1
                /\ sse' = sse1
                /\ speech_buffer' = buf0
                /\ synthesized' = syn0
                /\ d_tool_calls' = dtc1
                /\ varied' = v0
                /\ UNCHANGED <<turns, outcome, driver, d_full_text>>

\* The payload of calls[callIdx] is known: the tool message, the summary,
\* the success flag; then the next call or the end of the round.
CompleteCall(payload_text, a, sse0, buf0, syn0, v0) ==
    LET tc == calls[callIdx]
        streaming == mode = "streaming"
        sse1 == IF streaming
                THEN Append(sse0, Event("tool_result", llmCalls, tc.id, tc.name, payload_text))
                ELSE sse0
        dtc1 == IF streaming
                THEN Append(d_tool_calls, [name |-> tc.name, result |-> payload_text])
                ELSE d_tool_calls
        conv1 == Append(conversation, Message("tool", Some(payload_text), tc.id, <<>>))
        sums1 == Append(tool_summaries,
                        [name |-> tc.name, arguments |-> a, response |-> payload_text])
        succ1 == tool_success \/ PayloadSuccess(payload_text)
    IN  /\ args' = a
        /\ IF HasNextCall(callIdx, calls)
           THEN /\ callIdx' = callIdx + 1
                /\ pc' = "tool"
                /\ conversation' = conv1
                /\ tool_summaries' = sums1
                /\ tool_success' = succ1
                /\ sse' = sse1
                /\ speech_buffer' = buf0
                /\ synthesized' = syn0
                /\ d_tool_calls' = dtc1
                /\ varied' = v0
                /\ UNCHANGED <<turns, outcome, driver, d_full_text, loop_count>>
           ELSE EndRound(conv1, sums1, succ1, sse1, buf0, syn0, dtc1, v0)

\* the assistant message is appended; the loop ends or the tool loop starts
AfterAssistant(entry, tool_calls, final_content, v0) ==
    LET conv1 == Append(conversation, entry)
    IN  IF tool_calls = <<>>
        THEN /\ IF mode = "buffered"
                THEN FinishBuffered(conv1, tool_summaries, final_content, v0)
                ELSE FinishStreaming(conv1, tool_summaries, sse, speech_buffer,
                                     synthesized, v0)
             /\ UNCHANGED <<loopVars, loop_count>>
        ELSE /\ conversation' = conv1
             /\ calls' = tool_calls
             /\ callIdx' = 1
             /\ tool_success' = FALSE
             /\ pc' = "tool"
             /\ varied' = v0
             /\ UNCHANGED <<turns, outcome, driver, tool_summaries, d_full_text, d_tool_calls,
                            args, loop_count, sse, speech_buffer, synthesized>>

\* tool_choice="auto" if openai_tools else "none"
tool_choice == IF filtered.value # <<>> THEN "auto" ELSE "none"

\* the LLM's next completion may be out; under tool_choice "none" it asks
\* for no tool
MayComplete(out, extra) ==
    /\ tool_choice = "none" => out.calls = <<>>
    /\ \/ OutputCost(out) + extra = 0
       \/ llmTotal = 0 /\ varied + OutputCost(out) + extra <= variety

\* Buffered: llm.chat.completions.create returns the completion.
LLMReturn(out) ==
    /\ pc = "llm"
    /\ mode = "buffered"
    /\ MayComplete(out, 0)
    /\ llmCalls' = llmCalls + 1
    /\ llmTotal' = llmTotal + 1
    /\ replies' = [replies EXCEPT !.outs = Append(@, out)]
    /\ LET tool_calls == OutputCalls(out, llmTotal + 1)
       IN  AfterAssistant(Message("assistant", out.content, NoId, tool_calls),
                          tool_calls, out.content, varied + OutputCost(out))
    /\ UNCHANGED <<scenario, requests, mode, historical_count, full_text, roundVars,
                   invoked, keepAlives>>

\* Streaming: llm.chat.completions.create returns the opened stream.
StreamOpen(out, style) ==
    /\ pc = "llm"
    /\ mode = "streaming"
    /\ MayComplete(out, StyleCost(style))
    /\ varied' = varied + OutputCost(out) + StyleCost(style)
    /\ llmCalls' = llmCalls + 1
    /\ llmTotal' = llmTotal + 1
    /\ replies' = [replies EXCEPT !.outs = Append(@, out)]
    /\ stream' = StyleChunks(out, llmTotal + 1, style)
    /\ current_content' = <<>>
    /\ current_tool_calls' = <<>>
    /\ pc' = "stream"
    /\ UNCHANGED <<scenario, turns, requests, mode, conversation, historical_count,
                   tool_summaries, loop_count, full_text, loopVars, d_full_text,
                   d_tool_calls, speech_buffer, sse, invoked, outcome, driver, keepAlives,
                   synthesized>>

\* Streaming: the LLM answers with a text and no tool call, delivered in
\* deltas cut at the places of cuts.
StreamText(text, cuts) ==
    /\ pc = "llm"
    /\ mode = "streaming"
    /\ llmCalls' = llmCalls + 1
    /\ llmTotal' = llmTotal + 1
    /\ replies' = [replies EXCEPT !.outs = Append(@, Output(Some(text), <<>>))]
    /\ stream' = TextChunks(text, cuts, 1)
    /\ current_content' = <<>>
    /\ current_tool_calls' = <<>>
    /\ pc' = "stream"
    /\ UNCHANGED <<scenario, varied, turns, requests, mode, conversation,
                   historical_count, tool_summaries, loop_count, full_text, loopVars,
                   d_full_text, d_tool_calls, speech_buffer, sse, invoked, outcome, driver,
                   keepAlives, synthesized>>

RECURSIVE AccumulateFirst(_, _)
\* an accumulation that keeps only the first arguments fragment of a call
AccumulateFirst(ctc, frags) ==
    IF frags = <<>> THEN ctc
    ELSE LET tc == frags[1]
             old == IF tc.index \in DOMAIN ctc THEN ctc[tc.index]
                    ELSE [id |-> tc.id, name |-> "", arguments |-> <<>>]
             new == [id |-> IF tc.id # NoId THEN tc.id ELSE old.id,
                     name |-> IF tc.name # "" THEN tc.name ELSE old.name,
                     arguments |-> IF old.arguments = <<>> THEN tc.arguments
                                   ELSE old.arguments]
         IN  AccumulateFirst([i \in DOMAIN ctc \cup {tc.index} |->
                                 IF i = tc.index THEN new ELSE ctc[i]],
                             Tail(frags))

RECURSIVE Accumulate(_, _)
\* the fragments of one delta folded into current_tool_calls
Accumulate(ctc, frags) ==
    IF frags = <<>> THEN ctc
    ELSE LET tc == frags[1]
             old == IF tc.index \in DOMAIN ctc THEN ctc[tc.index]
                    ELSE [id |-> tc.id, name |-> "", arguments |-> <<>>]
             new == [id |-> IF tc.id # NoId THEN tc.id ELSE old.id,
                     name |-> IF tc.name # "" THEN tc.name ELSE old.name,
                     arguments |-> old.arguments \o tc.arguments]
         IN  Accumulate([i \in DOMAIN ctc \cup {tc.index} |->
                            IF i = tc.index THEN new ELSE ctc[i]],
                        Tail(frags))

RECURSIVE SortedCalls(_, _)
\* the accumulated calls in the order of sorted(current_tool_calls.keys())
SortedCalls(ctc, keys) ==
    IF keys = {} THEN <<>>
    ELSE LET k == CHOOSE x \in keys : \A y \in keys : x <= y
         IN  <<ToolCall(ctc[k].id, ctc[k].name, ctc[k].arguments)>>
             \o SortedCalls(ctc, keys \ {k})

\* Streaming: the stream delivers its next chunk.  A content delta is
\* yielded as text_delta; run_stream forwards it and speaks the segments cut.
Delivered(chunk, ex) ==
    /\ pc = "stream"
    /\ stream # <<>>
    /\ LET sse1 == Append(sse, Event("text_delta", llmCalls, NoId, "", chunk.content))
       IN  /\ stream' = Tail(stream)
           /\ current_content' = current_content \o chunk.content
           /\ full_text' = full_text \o chunk.content
           /\ current_tool_calls' = Accumulate(current_tool_calls, chunk.tool_calls)
           /\ IF chunk.content = <<>>
              THEN UNCHANGED <<sse, speech_buffer, varied, synthesized>>
              ELSE \E failed \in SUBSET (1..Len(ex.spoken)) :
                     /\ MayVary(TtsCost(failed))
                     /\ varied' = varied + TtsCost(failed)
                     /\ speech_buffer' = ex.speech_buffer
                     /\ synthesized' = synthesized \o EachGuarded(ex.spoken, failed)
                     /\ sse' = sse1 \o AudioEvents(
                                   Audible(EachGuarded(ex.spoken, failed)))
    /\ UNCHANGED <<scenario, turns, requests, mode, pc, conversation, historical_count,
                   tool_summaries, loop_count, loopVars, d_full_text, d_tool_calls,
                   llmCalls, llmTotal, replies, invoked, outcome, driver, keepAlives>>

\* the next chunk, with what run_stream cuts from the buffer it extends
StreamChunk ==
    /\ stream # <<>>
    /\ Delivered(Head(stream), TextDelta(speech_buffer, Head(stream).content))

\* Streaming: the stream ends; the assistant message is built and appended.
StreamEnd ==
    /\ pc = "stream"
    /\ stream = <<>>
    /\ LET tool_calls_list == SortedCalls(current_tool_calls, DOMAIN current_tool_calls)
       IN  AfterAssistant(Message("assistant", OrNone(current_content), NoId,
                                  tool_calls_list),
                          tool_calls_list, None, varied)
    /\ UNCHANGED <<scenario, requests, mode, historical_count, full_text, roundVars,
                   llmCalls, llmTotal, replies, invoked, keepAlives>>

\* llm.chat.completions.create raises: nothing catches it.
LLMRaise ==
    /\ pc = "llm"
    /\ llmTotal = 0
    /\ llmCalls' = llmCalls + 1
    /\ llmTotal' = llmTotal + 1
    /\ Escape
    /\ UNCHANGED <<scenario, requests, mode, historical_count, loop_count, full_text,
                   roundVars, loopVars, replies, invoked, keepAlives>>

\* Streaming: iterating the LLM stream raises: nothing catches it.
StreamRaise ==
    /\ pc = "stream"
    /\ Escape
    /\ UNCHANGED <<scenario, requests, mode, historical_count, loop_count, full_text,
                   roundVars, loopVars, llmCalls, llmTotal, replies, invoked, keepAlives>>

\* a parse that hands malformed arguments on
ParseArgsUnchecked(arguments) ==
    IF arguments = <<>> THEN EmptyDict
    ELSE IF JsonLoads(arguments).ok THEN JsonLoads(arguments).value
    ELSE << <<"arguments", "malformed">> >>

\* json.loads of the arguments text, {} when empty or malformed
ParseArgs(arguments) ==
    IF arguments = <<>> THEN EmptyDict
    ELSE IF JsonLoads(arguments).ok THEN JsonLoads(arguments).value
    ELSE EmptyDict

\* The tool loop takes calls[callIdx]: its arguments are parsed, streaming
\* yields tool_call_start (run_stream flushes the speech buffer and forwards
\* tool_call), then the confirmation gate answers or the tool is invoked.
Started(tc, a, flush, spoken) ==
    /\ pc = "tool"
    /\ \E failed \in SUBSET (1..Len(spoken)) :
             LET v0 == varied + TtsCost(failed)
                 syn1 == synthesized \o OneGuard(spoken, failed)
                 sse0 == sse \o AudioEvents(Audible(OneGuard(spoken, failed)))
                 sse1 == IF mode = "streaming"
                         THEN Append(sse0, Event("tool_call", llmCalls, tc.id, tc.name, <<>>))
                         ELSE sse
                 buf1 == IF flush /\ failed = {} THEN <<>> ELSE speech_buffer
             IN  /\ MayVary(TtsCost(failed))
                 /\ IF Gated(conversation, tc.name)
                    THEN /\ CompleteCall(ConfirmationRequiredPayload(tc.name), a, sse1,
                                         buf1, syn1, v0)
                         /\ UNCHANGED invoked
                    ELSE /\ invoked' = Append(invoked, [id |-> tc.id, name |-> tc.name,
                                                        arguments |-> a])
                         /\ args' = a
                         /\ pc' = "toolwait"
                         /\ sse' = sse1
                         /\ speech_buffer' = buf1
                         /\ synthesized' = syn1
                         /\ varied' = v0
                         /\ UNCHANGED <<turns, conversation, tool_summaries, loop_count,
                                        callIdx, tool_success, d_full_text, d_tool_calls,
                                        outcome, driver>>
    /\ UNCHANGED <<scenario, requests, mode, historical_count, full_text, roundVars,
                   calls, llmCalls, llmTotal, replies, keepAlives>>

\* the next call of the round, with the pre-tool flush of the speech buffer
ToolStart ==
    /\ pc = "tool"
    /\ Started(calls[callIdx], ParseArgs(calls[callIdx].arguments),
               mode = "streaming" /\ Strip(speech_buffer) # <<>>,
               IF mode = "streaming" THEN ForceFlush(speech_buffer) ELSE <<>>)

\* client.call_tool returns a result.
ToolReturn(result) ==
    /\ pc = "toolwait"
    /\ MayVary(ResultCost(result))
    /\ CompleteCall(_stringify_tool_result(result), args, sse, speech_buffer,
                    synthesized, varied + ResultCost(result))
    /\ replies' = [replies EXCEPT !.results = Append(@, result)]
    /\ UNCHANGED <<scenario, requests, mode, historical_count, full_text, roundVars,
                   calls, llmCalls, llmTotal, invoked, keepAlives>>

\* client.call_tool raises: nothing catches it.
ToolRaise ==
    /\ pc = "toolwait"
    /\ Escape
    /\ UNCHANGED <<scenario, requests, mode, historical_count, loop_count, full_text,
                   roundVars, loopVars, llmCalls, llmTotal, replies, invoked, keepAlives>>

\* The driver waits 10 seconds without an event: a keep-alive comment.
KeepAlive ==
    /\ mode = "streaming"
    /\ pc \in {"llm", "stream", "toolwait"}
    /\ keepAlives < MaxKeepAlive
    /\ MayVary(1)
    /\ varied' = varied + 1
    /\ keepAlives' = keepAlives + 1
    /\ sse' = Append(sse, Event("keep-alive", llmCalls, NoId, "", <<>>))
    /\ UNCHANGED <<scenario, turns, requests, mode, pc, conversation, historical_count,
                   tool_summaries, loop_count, full_text, roundVars, loopVars,
                   d_full_text, d_tool_calls, speech_buffer, llmCalls, llmTotal, replies,
                   invoked, outcome, driver, synthesized>>

\* the steps in which every collaborator returns
Proceed ==
    \/ \E m \in Modes, text \in UserTexts : StartRequest(m, text)
    \/ \E out \in VariedOutputs : LLMReturn(out)
    \/ \E out \in VariedOutputs, style \in {"whole", "split"} : StreamOpen(out, style)
    \/ StreamChunk
    \/ StreamEnd
    \/ ToolStart
    \/ \E result \in VariedResults : ToolReturn(result)

Next ==
    \/ Proceed
    \/ LLMRaise
    \/ StreamRaise
    \/ ToolRaise
    \/ KeepAlive
    \/ \E at \in {"keep-alive", "event"} : Disconnect(at)

Spec == Init /\ [][Next]_vars

SpecSession == InitSession /\ [][Proceed]_vars

\* one streaming request answered by a text, speech synthesis never failing
InitSpeech ==
    /\ Quiet
    /\ Unrestricted
    /\ variety = 0
    /\ maxReq = 1
    /\ turns = <<>>
    /\ InitLocals

Speak ==
    \/ \E text \in UserTexts : StartRequest("streaming", text)
    \/ \E text \in SpeechTexts : \E cuts \in CutSets(text) : StreamText(text, cuts)
    \/ StreamChunk
    \/ StreamEnd

SpecSpeech == InitSpeech /\ [][Speak]_vars

\* the words user messages are made of here: the vocabulary, other casings,
\* words that only contain a word of the vocabulary, and words outside it
GateWords ==
    {"yes", "Yes", "yeah", "yep", "confirm", "confirmed", "approve", "approved",
     "ok", "OK", "okay", "go", "Go", "ahead", "send", "it", "do", "yesterday",
     "book", "create"}
PhraseWords == {"go", "Go", "ahead", "send", "it", "do", "create"}

\* user messages of one word, and of two words that may form a phrase
Utterances ==
    {<<w>> : w \in GateWords} \cup {<<v, w>> : v \in PhraseWords, w \in PhraseWords}

\* one buffered request whose first completion may ask for the tool that
\* requires confirmation
InitGate ==
    /\ Quiet
    /\ Unrestricted
    /\ variety = 1
    /\ maxReq = 1
    /\ turns = <<>>
    /\ InitLocals

AskAndGate ==
    \/ \E text \in Utterances : StartRequest("buffered", text)
    \/ \E out \in VariedOutputs : LLMReturn(out)
    \/ ToolStart
    \/ \E result \in PlainResults : ToolReturn(result)

SpecGate == InitGate /\ [][AskAndGate]_vars

\* one streaming request whose first completion may be cut in any style
InitFragments ==
    /\ Quiet
    /\ Unrestricted
    /\ variety = 2
    /\ maxReq = 1
    /\ turns = <<>>
    /\ InitLocals

Assemble ==
    \/ \E text \in UserTexts : StartRequest("streaming", text)
    \/ \E out \in VariedOutputs, style \in FragmentStyles : StreamOpen(out, style)
    \/ StreamChunk
    \/ StreamEnd
    \/ ToolStart
    \/ \E result \in PlainResults : ToolReturn(result)

SpecFragments == InitFragments /\ [][Assemble]_vars

\* one request in either mode; a streamed completion may be cut in any style
InitModes ==
    /\ Quiet
    /\ Unrestricted
    /\ variety = 2
    /\ maxReq = 1
    /\ turns = <<>>
    /\ InitLocals

EitherMode ==
    \/ \E m \in Modes, text \in UserTexts : StartRequest(m, text)
    \/ \E out \in VariedOutputs : LLMReturn(out)
    \/ \E out \in VariedOutputs, style \in FragmentStyles : StreamOpen(out, style)
    \/ StreamChunk
    \/ StreamEnd
    \/ ToolStart
    \/ \E result \in PlainResults : ToolReturn(result)

SpecModes == InitModes /\ [][EitherMode]_vars

\* the atoms the buffers of the segmenter are made of here
SegmenterAtoms == {"a", ".", ":", "\n", "-", " ", "1", LongWord}
MaxBufferLen == 4

\* buffers: every text of up to MaxBufferLen atoms, the answer texts, and
\* texts with a list behind prose and prose behind a list
SegmenterBuffers ==
    UNION {[1..n -> SegmenterAtoms] : n \in 0..MaxBufferLen}
    \cup SpeechTexts
    \cup { <<"a", ":", "\n", "b", "\n">>,
           <<LongWord, " ", LongWord, " ", LongWord, "\n", "a">>,
           <<"-", " ", "a", "\n", "-", " ", "b", "\n", "c">>,
           <<"-", " ", "a", "\n", "b", "\n", "c">> }

\* an extraction that cuts its segments and leaves the buffer as it was
extract_and_keep(buffer) ==
    [segments |-> _extract_speak_segments(buffer).segments, remainder |-> buffer]

\* run_stream: segs, speech_buffer = _extract_speak_segments(speech_buffer)
extract(buffer) == _extract_speak_segments(buffer)

\* the segmenter on its own: the speech buffer holds a text
InitSegmenter ==
    /\ Quiet
    /\ Unrestricted
    /\ variety = 0
    /\ maxReq = 0
    /\ turns = <<>>
    /\ InitTurn
    /\ speech_buffer \in SegmenterBuffers

\* the buffer is extracted: a first time, or again with nothing received
Extract ==
    /\ segs' = Done(extract(speech_buffer).segments)
    /\ speech_buffer' = extract(speech_buffer).remainder
    /\ UNCHANGED <<variety, maxReq, filterVars, threadVars, varied, turns, requests,
                   mode, pc, conversation, historical_count, tool_summaries,
                   loop_count, full_text, roundVars, loopVars, d_full_text,
                   d_tool_calls, sse, llmCalls, llmTotal, replies, invoked, outcome, driver,
                   keepAlives, synthesized, yields>>

SpecSegmenter == InitSegmenter /\ [][Extract]_vars

\* ----------------------------------------------- the stream driver alone
\* the events run_stream may yield, and the runs of at most MaxEvents
MaxEvents == 3
\* the waits of 10 seconds that may pass without an event
MaxWaits == 2
DriverEvents ==
    {Event("text_delta", 1, NoId, "", <<"a">>),
     Event("text_delta", 1, NoId, "", <<"b">>),
     Event("audio", 1, NoId, "", <<"a">>)}
EventRuns == UNION {[1..n -> DriverEvents] : n \in 0..MaxEvents}
KeepAliveComment == Event("keep-alive", 0, NoId, "", <<>>)

\* a wait that cancels the task it waited for, as asyncio.wait_for does
wait_for(d) == cancel_pending(d)

\* asyncio.wait({next_task}, timeout=10) without a task done: the task is
\* left as it is
wait(d) == d

\* the driver on its own: run_stream will yield one of the runs
InitDriver ==
    /\ Quiet
    /\ Unrestricted
    /\ variety = 0
    /\ maxReq = 0
    /\ turns = <<>>
    /\ InitDriven
    /\ mode = "streaming"
    /\ speech_buffer = <<>>
    /\ \E events \in EventRuns : yields = [events |-> events, count |-> 0]

\* what the driver leaves alone
driverFrame == <<variety, maxReq, filterVars, threadVars, segs, varied, turns, requests,
                 mode, pc, conversation, historical_count, tool_summaries, loop_count,
                 full_text, roundVars, loopVars, d_full_text, d_tool_calls,
                 speech_buffer, llmCalls, llmTotal, replies, invoked, outcome,
                 synthesized>>

\* generate(): the loop, run_stream() and the task of its first __anext__
CreateTask ==
    /\ driver = NoDriver
    /\ driver' = Created
    /\ UNCHANGED <<sse, keepAlives, yields, driverFrame>>

\* run_stream reaches its next yield: the pending task is done, its result
\* is the event
Yield ==
    /\ driver.loop = "open"
    /\ driver.next_task = "pending"
    /\ yields.count < Len(yields.events)
    /\ yields' = [yields EXCEPT !.count = @ + 1]
    /\ driver' = Yielded
    /\ UNCHANGED <<sse, keepAlives, driverFrame>>

\* run_stream returns: the pending task is done with StopAsyncIteration
Return ==
    /\ driver.loop = "open"
    /\ driver.next_task = "pending"
    /\ yields.count = Len(yields.events)
    /\ driver' = Exhausted
    /\ UNCHANGED <<sse, keepAlives, yields, driverFrame>>

\* 10 seconds pass without the task done: a keep-alive comment, and the
\* driver waits again
Timeout ==
    /\ driver.loop = "open"
    /\ driver.next_task = "pending"
    /\ keepAlives < MaxWaits
    /\ driver' = wait(driver)
    /\ sse' = Append(sse, KeepAliveComment)
    /\ keepAlives' = keepAlives + 1
    /\ UNCHANGED <<yields, driverFrame>>

\* the task is done: its event is yielded to the client and the task of the
\* next __anext__ is made; StopAsyncIteration leaves the loop by its break
\* and the CancelledError of a cancelled task leaves it as an exception,
\* both through the finally block
Result ==
    /\ driver.loop = "open"
    /\ driver.next_task \notin {"pending", "none"}
    /\ IF driver.next_task = "done" /\ driver.async_gen = "suspended"
       THEN /\ sse' = Append(sse, yields.events[yields.count])
            /\ driver' = Created
       ELSE /\ sse' = sse
            /\ driver' = Cleanup(driver)
    /\ UNCHANGED <<keepAlives, yields, driverFrame>>

Drive == CreateTask \/ Yield \/ Return \/ Timeout \/ Result

SpecDriver == InitDriver /\ [][Drive]_vars

\* -------------------------------------------- a request with tool settings
\* the settings a request may carry: every category, one category, one tool
\* by name, or no tool at all
TagSettings == {Absent, Provided({"weather"}), Provided({"gmail"}), Provided({})}
NameSettings == {Absent, Provided({"get_weather"})}

\* one request against the served catalog, filtered by its settings
InitEnabled ==
    /\ Quiet
    /\ tools = Catalog
    /\ allowed_names \in NameSettings
    /\ allowed_tags \in TagSettings
    /\ required_tags = Absent
    /\ filtered = Done(_filter_tools(tools, allowed_names, allowed_tags, required_tags))
    /\ variety = 1
    /\ maxReq = 1
    /\ turns = <<>>
    /\ InitLocals

SpecEnabled == InitEnabled /\ [][Proceed]_vars

\* _filter_tools on its own: a catalog and the three optional arguments
InitFilter ==
    /\ tools \in Catalogs
    /\ allowed_names \in Optional(NamePool)
    /\ allowed_tags \in Optional(TagPool)
    /\ required_tags \in Optional(TagPool)
    /\ filtered = Pending
    /\ Quiet
    /\ variety = 0
    /\ maxReq = 0
    /\ turns = <<>>
    /\ InitLocals

\* the bridge filters the catalog
ApplyFilter ==
    /\ ~filtered.done
    /\ filtered' = Done(_filter_tools(tools, allowed_names, allowed_tags, required_tags))
    /\ UNCHANGED <<variety, maxReq, tools, allowed_names, allowed_tags, required_tags,
                   varied, turns, requests, mode, pc, conversation, historical_count,
                   tool_summaries, loop_count, full_text, roundVars, loopVars,
                   d_full_text, d_tool_calls, speech_buffer, sse, llmCalls, llmTotal, replies,
                   invoked, outcome, driver, keepAlives, synthesized, threadVars, segs,
                   yields>>

SpecFilter == InitFilter /\ [][ApplyFilter]_vars

\* ------------------------------------------------- concurrent requests
\* the variables of a single turn, which the worker threads' steps of the
\* concurrent specification leave alone
turnVars == <<variety, maxReq, filterVars, varied, turns, requests, mode, pc,
              conversation, historical_count, tool_summaries, loop_count, full_text,
              roundVars, loopVars, d_full_text, d_tool_calls, speech_buffer, sse,
              llmCalls, llmTotal, replies, invoked, outcome, driver, keepAlives, synthesized, segs,
              yields>>

\* a store with one slot that every thread writes
set_shared_timezone(store, thread, timezone_name) ==
    [t \in DOMAIN store |-> timezone_name]

\* user_context.set_user_timezone, called by thread
set_user_timezone(store, thread, timezone_name) ==
    [store EXCEPT ![thread] = timezone_name]

\* user_context.get_user_timezone, called by thread
get_user_timezone(store, thread) == store[thread]

\* workflows.tasks._get_effective_tz: the zone the tool code works with
_get_effective_tz(name) ==
    IF name = NoZone \/ name \notin ValidZones THEN "America/Chicago" ELSE name

\* a client's record after a step
Moved(c, new_pc) == [clients EXCEPT ![c].pc = new_pc]

\* client c reads or appends the turns of its session: the log keeps who
\* came after whom, a client's accesses in a row counted once
Access(c) ==
    LET s == clients[c].session_id
        log == accesses[s]
    IN  IF log # <<>> /\ log[Len(log)] = c THEN accesses
        ELSE [accesses EXCEPT ![s] = Append(log, c)]

\* the threads of the pool that work on no request
Idle == {t \in Threads : \A d \in Clients :
                            clients[d].pc \in {"new", "done"} \/ clients[d].thread # t}

\* The server hands the next request to an idle worker thread of its pool,
\* which starts generate(): set_user_timezone(timezone_name).  The requests
\* are numbered as received.
Receive(c, thread, session_id, timezone_name) ==
    /\ clients[c].pc = "new"
    /\ \A d \in Clients : d < c => clients[d].pc # "new"
    /\ _thread_local' = set_user_timezone(_thread_local, thread, timezone_name)
    /\ clients' = [clients EXCEPT ![c] =
                      [@ EXCEPT !.pc = "session", !.thread = thread,
                                !.session_id = session_id,
                                !.timezone_name = timezone_name]]
    /\ UNCHANGED <<_sessions, accesses, turnVars>>

\* session_store.get_session: lookup, or create and store
get_session(store, session_id) ==
    IF store[session_id].made THEN store[session_id] ELSE ChatSession(<<>>)

\* generate(): the session is looked up or created, the user turn is
\* appended to it and the history is read for the bridge
OpenTurn(c) ==
    LET s == clients[c].session_id
        ts == append_turn(get_session(_sessions, s).turns, "user", Some(<<"okay">>),
                          NoId, <<>>)
    IN  /\ clients[c].pc = "session"
        /\ _sessions' = [_sessions EXCEPT ![s] = ChatSession(ts)]
        /\ accesses' = Access(c)
        /\ clients' = [clients EXCEPT ![c] =
                          [@ EXCEPT !.pc = "tool",
                                    !.history_messages =
                                        [i \in 1..Len(ts) |-> to_message(ts[i])]]]
        /\ UNCHANGED <<_thread_local, turnVars>>

\* A tool run for the request asks for the zone to work in.
ToolReadsTimezone(c) ==
    /\ clients[c].pc = "tool"
    /\ clients' = [clients EXCEPT ![c] =
                      [@ EXCEPT !.pc = "store",
                                !.tz = _get_effective_tz(
                                           get_user_timezone(_thread_local,
                                                             clients[c].thread))]]
    /\ UNCHANGED <<_sessions, _thread_local, accesses, turnVars>>

\* a request answered: its locals are gone
Answered == [Waiting EXCEPT !.pc = "done"]

\* generate(): append_turn(session, role="assistant", content=full_text); the
\* response ends and the thread is idle again
AppendAssistant(c) ==
    /\ clients[c].pc = "store"
    /\ _sessions' = [_sessions EXCEPT ![clients[c].session_id] =
                        ChatSession(append_turn(@.turns, "assistant",
                                                Some(<<"All", "done", ".">>), NoId, <<>>))]
    /\ accesses' = Access(c)
    /\ clients' = [clients EXCEPT ![c] = Answered]
    /\ UNCHANGED <<_thread_local, turnVars>>

Serve ==
    \/ \E c \in Clients, thread \in Idle, session_id \in SessionIds,
          timezone_name \in Timezones : Receive(c, thread, session_id, timezone_name)
    \/ \E c \in Clients : OpenTurn(c)
    \/ \E c \in Clients : ToolReadsTimezone(c)
    \/ \E c \in Clients : AppendAssistant(c)

\* requests served at the same time by the worker threads
InitThreads ==
    /\ Quiet
    /\ Unrestricted
    /\ variety = 0
    /\ maxReq = 0
    /\ turns = <<>>
    /\ InitLocals

SpecThreads == InitThreads /\ [][Serve]_vars

\* ------------------------------------------------------------- properties
\* positions of the conversation written by the current turn: after the
\* system message, the history and the tool-availability message
TurnStart == 1 + Len(context_prefix) + historical_count + 1
NewPositions == {i \in 1..Len(conversation) : i > TurnStart}
ToolPositions == {i \in NewPositions : conversation[i].role = "tool"}
AssistantPositions == {i \in NewPositions : conversation[i].role = "assistant"}

\* the tool calls the assistant messages of this turn request
Requested ==
    UNION {{conversation[i].tool_calls[j] : j \in 1..Len(conversation[i].tool_calls)} :
              i \in AssistantPositions}
RequestedName(id) == (CHOOSE tc \in Requested : tc.id = id).name
InvokedIds == {invoked[k].id : k \in 1..Len(invoked)}

Tagged(name) == "requires_confirmation" \in tool_tags_by_name(name)

\* the most recent user-role message of the conversation confirms
UserPositions == {i \in 1..Len(conversation) : conversation[i].role = "user"}
MostRecentUserText ==
    IF UserPositions = {} THEN <<>>
    ELSE OrEmpty(conversation[Max(UserPositions)].content)
MostRecentUserConfirms ==
    \E i \in 1..Len(MostRecentUserText) :
        \/ Lower(MostRecentUserText[i]) \in ConfirmWords
        \/ /\ i < Len(MostRecentUserText)
           /\ <<Lower(MostRecentUserText[i]), Lower(MostRecentUserText[i + 1])>>
                  \in ConfirmPhrases

\* the payload reports an error and names the tool
ErrorNaming(payload_text, name) ==
    /\ JsonLoads(payload_text).ok
    /\ DictGet(JsonLoads(payload_text).value, "status") = "error"
    /\ DictGet(JsonLoads(payload_text).value, "tool") = name

\* C1: a tool tagged requires_confirmation is invoked on the tool server if
\* and only if the most recent user-role message of the conversation matches
\* the confirmation vocabulary; when it does not, the tool is never called
\* and the tool message appended for the call is a payload with status
\* "error" that names the tool.  Buffered and streaming, every call of every
\* round.
C1_ConfirmationGate ==
    /\ \A k \in 1..Len(invoked) :
           Tagged(invoked[k].name) => MostRecentUserConfirms
    /\ \A i \in ToolPositions :
           LET id == conversation[i].tool_call_id
               name == RequestedName(id)
           IN  Tagged(name) =>
                   /\ id \in InvokedIds <=> MostRecentUserConfirms
                   /\ ~MostRecentUserConfirms =>
                          ErrorNaming(OrEmpty(conversation[i].content), name)

\* an earlier user message confirmed, the most recent one does not: the call
\* of the tagged tool was answered by the gate and the server was not called
C1_Refused ==
    /\ mode = "streaming"
    /\ \E i \in UserPositions : i < Max(UserPositions)
    /\ ~MostRecentUserConfirms
    /\ invoked = <<>>
    /\ \E i \in ToolPositions :
           /\ Tagged(RequestedName(conversation[i].tool_call_id))
           /\ ErrorNaming(OrEmpty(conversation[i].content), "send_gmail_draft")

\* the ids of the tool calls listed by assistant messages before position i
EarlierCallIds(i) ==
    UNION {{conversation[j].tool_calls[k].id :
               k \in 1..Len(conversation[j].tool_calls)} :
              j \in {j \in 1..(i - 1) : conversation[j].role = "assistant"}}

\* C2: in every conversation handed to the LLM, in any round of any turn of
\* a session, turns whose history was trimmed included, each message with
\* role tool carries the id of a tool call listed in a strictly earlier
\* assistant message of that conversation.
C2_ToolCallIdInvariant ==
    pc = "llm" =>
        \A i \in 1..Len(conversation) :
            conversation[i].role = "tool" =>
                conversation[i].tool_call_id \in EarlierCallIds(i)

\* the same within the messages the current turn wrote
C2_WithinTurn ==
    \A i \in ToolPositions : conversation[i].tool_call_id \in EarlierCallIds(i)

\* every assistant message of the turn requested at least one tool call
EveryCompletionRequestsTools ==
    \A i \in AssistantPositions : conversation[i].tool_calls # <<>>

\* the rounds of the turn whose tool calls were all executed
RoundsExecuted ==
    Cardinality({i \in NewPositions : conversation[i] \in {SuccessNudge, FailureNudge}})

\* the turn ended with the bridge returning
TurnReturned == pc = "idle" /\ outcome.kind = "returned"

\* what a running turn has left to do, at most: the rounds up to the cap,
\* and within the round the chunks of the stream and the calls of the loop
StepsLeft ==
    IF pc = "idle" THEN 0
    ELSE (max_tool_loops - loop_count) * 40
         + (CASE pc = "llm" -> 39
              [] pc = "stream" -> 20 + Len(stream)
              [] pc = "tool" -> 2 * (Len(calls) - callIdx) + 2
              [] pc = "toolwait" -> 2 * (Len(calls) - callIdx) + 1)

C3_Counts ==
    /\ llmCalls <= max_tool_loops
    /\ RoundsExecuted <= max_tool_loops
    /\ pc # "idle" => RoundsExecuted < max_tool_loops /\ StepsLeft > 0
    /\ TurnReturned /\ EveryCompletionRequestsTools =>
           /\ llmCalls = max_tool_loops
           /\ RoundsExecuted = max_tool_loops
           /\ loop_count = max_tool_loops

\* C3: when every LLM completion of a turn requests at least one tool call
\* and every LLM call and tool invocation returns, the loop, buffered and
\* streaming, issues exactly 15 LLM calls and executes exactly 15 tool
\* rounds, never starts a 16th LLM call, and the turn terminates: every step
\* of a running turn other than a keep-alive brings its end nearer.
C3_ExactlyFifteenRounds ==
    /\ []C3_Counts
    /\ [][pc # "idle" /\ keepAlives' = keepAlives => StepsLeft' < StepsLeft]_vars

\* a streaming turn that stopped at the cap
C3_Capped ==
    /\ mode = "streaming"
    /\ TurnReturned
    /\ EveryCompletionRequestsTools
    /\ llmCalls = max_tool_loops
    /\ RoundsExecuted = max_tool_loops

\* the events of the given type the client has received
Events(type) == {i \in 1..Len(sse) : sse[i].type = type}

\* C4: when the iteration cap is reached the turn ends with a fixed
\* assistant message saying the tool-call limit was hit and no error is
\* reported: buffered, the returned text is that message; streaming, no
\* error event is emitted for the cap.
C4_CapIsGraceful ==
    TurnReturned /\ RoundsExecuted = max_tool_loops =>
        /\ mode = "buffered" => outcome.text = Some(CapText)
        /\ mode = "streaming" => Events("error") = {}

\* the buffered half of C4: the returned text is the fixed message
C4_BufferedCapText ==
    TurnReturned /\ RoundsExecuted = max_tool_loops /\ mode = "buffered" =>
        outcome.text = Some(CapText)

\* a streaming turn ran to its end: generate() returned or raised
StreamingTurnOver ==
    mode = "streaming" /\ pc = "idle" /\ outcome.kind \in {"returned", "raised"}

\* C5: for every streaming request, whatever the LLM, tool and speech
\* collaborators do (return, stall or raise), the SSE stream contains exactly
\* one done event and it is the last event; no stream ends without done.
C5_ExactlyOneDoneLast ==
    /\ Cardinality(Events("done")) <= 1
    /\ \A i \in Events("done") : i = Len(sse)
    /\ StreamingTurnOver => Events("done") # {}

\* C6: when an LLM call of a streaming turn raises, while opening or while
\* iterating the stream, the client receives an error event, the turn ends,
\* and no exception leaves the SSE generator.
C6_LLMFailureIsErrorEvent ==
    [][mode = "streaming" /\ (LLMRaise \/ StreamRaise) =>
           /\ \E i \in 1..Len(sse') : sse'[i].type = "error"
           /\ pc' = "idle"
           /\ outcome'.kind = "returned"]_vars

\* C7: when the tool server raises during an invocation the loop does not
\* raise: it appends a tool message for that call whose payload is an error,
\* and goes on with the remaining calls and the next round.
C7_ToolFailureIsData ==
    [][ToolRaise =>
           /\ outcome'.kind # "raised"
           /\ Len(conversation') > Len(conversation)
           /\ LET m == conversation'[Len(conversation) + 1]
              IN  /\ m.role = "tool"
                  /\ m.tool_call_id = calls[callIdx].id
                  /\ JsonLoads(OrEmpty(m.content)).ok
                  /\ DictGet(JsonLoads(OrEmpty(m.content)).value, "status") = "error"]_vars

\* the SSE events other than audio and keep-alive entries
Ordered == {i \in 1..Len(sse) : sse[i].type \notin {"audio", "keep-alive", "open"}}
NextOrdered(i) == CHOOSE j \in Ordered : j > i /\ \A x \in Ordered : x > i => j <= x

\* the order of the events received so far
SseOrder ==
    /\ \A i \in Events("text_delta"), j \in Events("tool_call") :
           sse[i].round = sse[j].round => i < j
    /\ \A i \in Events("text_delta"), j \in Events("tool_result") :
           sse[i].round > sse[j].round => j < i
    /\ \A i \in Events("done"), j \in Ordered : j <= i

\* every tool_call is immediately followed by the tool_result of its call
CallsAnswered ==
    \A i \in Events("tool_call") :
        /\ \E j \in Ordered : j > i
        /\ sse[NextOrdered(i)].type = "tool_result"
        /\ sse[NextOrdered(i)].call = sse[i].call

\* C8: in the SSE stream of one turn, ignoring audio and keep-alive entries,
\* the text_delta events of a round precede the round's tool_call events,
\* every tool_call is immediately followed by the tool_result of the same
\* call, no text_delta of a later round precedes a tool_result of an earlier
\* round, and done follows every text_delta, tool_call and tool_result.
C8_SseOrdering ==
    /\ SseOrder
    /\ StreamingTurnOver => CallsAnswered

\* the order holds in every turn in which the collaborators returned
SseOrderWhenReturned ==
    /\ SseOrder
    /\ mode = "streaming" /\ TurnReturned => CallsAnswered /\ Events("done") # {}
    /\ pc \in {"llm", "stream"} => CallsAnswered

\* the position of the s-th tool message the turn wrote
\* the tool messages of this turn, in order
ToolMessages ==
    SelectSeq(SubSeq(conversation, TurnStart + 1, Len(conversation)),
              LAMBDA m : m.role = "tool")
RequestedIds == {tc.id : tc \in Requested}
RequestedArguments(id) == (CHOOSE tc \in Requested : tc.id = id).arguments

\* C9: for a round whose assistant message requests k >= 1 tool calls, the
\* assistant message, with its tool calls even when its content is empty, is
\* in the conversation before any of them is invoked, and is followed by
\* exactly k tool messages in requested order, the j-th carrying the id of
\* the j-th call; exactly k summaries are recorded in the same order.
C9_RoundStructure ==
    /\ \A i \in AssistantPositions :
           LET tcs == conversation[i].tool_calls
               k == Len(tcs)
           IN  k >= 1 =>
                   /\ \A j \in 1..k :
                          i + j <= Len(conversation) =>
                              /\ conversation[i + j].role = "tool"
                              /\ conversation[i + j].tool_call_id = tcs[j].id
                   /\ i + k < Len(conversation) => conversation[i + k + 1].role # "tool"
                   /\ TurnReturned \/ i < Max(AssistantPositions) =>
                          i + k < Len(conversation)
    /\ InvokedIds \subseteq RequestedIds
    /\ Len(tool_summaries) = Cardinality(ToolPositions)
    /\ LET msgs == ToolMessages
       IN  \A n \in 1..Len(tool_summaries) :
               /\ tool_summaries[n].name = RequestedName(msgs[n].tool_call_id)
               /\ tool_summaries[n].response = OrEmpty(msgs[n].content)

\* a completed round of two calls whose assistant message had no content
C9_TwoCalls ==
    \E i \in AssistantPositions :
        /\ conversation[i].content = None
        /\ Len(conversation[i].tool_calls) = 2
        /\ i + 2 < Len(conversation)
        /\ conversation[i + 2].role = "tool"
        /\ Len(tool_summaries) >= 2

\* the arguments the tool loop is to use for an arguments text
ArgumentsFor(text) ==
    IF text # <<>> /\ JsonLoads(text).ok THEN JsonLoads(text).value ELSE EmptyDict

C10_Arguments ==
    /\ \A n \in 1..Len(invoked) :
           invoked[n].arguments = ArgumentsFor(RequestedArguments(invoked[n].id))
    /\ LET msgs == ToolMessages
       IN  \A n \in 1..Len(tool_summaries) :
               tool_summaries[n].arguments =
                   ArgumentsFor(RequestedArguments(msgs[n].tool_call_id))
    /\ TurnReturned =>
           \A id \in RequestedIds : \E i \in ToolPositions : conversation[i].tool_call_id = id

\* C10: tool-call arguments that are not valid JSON are replaced by an empty
\* arguments object: the call is processed with {} as arguments, a tool
\* message is appended for it, and taking the call never ends the turn with
\* an exception, buffered and streaming.
C10_MalformedArgumentsBecomeEmpty ==
    /\ []C10_Arguments
    /\ [][pc = "tool" => outcome'.kind # "raised"]_vars

\* a turn that returned after invoking a tool with {} for malformed arguments
C10_Malformed ==
    /\ TurnReturned
    /\ \E n \in 1..Len(invoked) :
           /\ RequestedArguments(invoked[n].id) = ArgsMalformed
           /\ invoked[n].arguments = EmptyDict
           /\ \E i \in ToolPositions : conversation[i].tool_call_id = invoked[n].id


\* the calls some completion of the LLM requests in full
WholeCalls == {OutputCalls(out, llmTotal) : out \in VariedOutputs}

\* the calls of the running round are those the stream delivered, whole
C11_Assembled ==
    (mode = "streaming" /\ pc \in {"tool", "toolwait"}) =>
        /\ stream = <<>>
        /\ calls = SortedCalls(current_tool_calls, DOMAIN current_tool_calls)
        /\ calls \in WholeCalls

\* C11: in streaming mode no tool is invoked while the stream of the round
\* still delivers deltas: every invocation happens after the stream has ended
\* and after all fragments of every call of the round have been accumulated.
C11_NoToolBeforeStreamEnd ==
    /\ []C11_Assembled
    /\ [][(mode = "streaming" /\ invoked' # invoked) =>
              /\ pc = "tool" /\ stream = <<>> /\ C11_Assembled
              /\ invoked' = Append(invoked,
                     [id |-> calls[callIdx].id, name |-> calls[callIdx].name,
                      arguments |-> ParseArgs(calls[callIdx].arguments)])]_vars

\* a tool runs whose call arrived in fragments
C11_InvokedAfterFragments ==
    /\ mode = "streaming" /\ pc = "toolwait"
    /\ varied = 1 /\ llmTotal = 1
    /\ calls = OutputCalls(PlainOutput, 1)
    /\ invoked # <<>> /\ invoked[Len(invoked)].arguments = ParseArgs(ArgsValid)

\* the nudges of the conversation
Nudges == {i \in 1..Len(conversation) : conversation[i] \in {SuccessNudge, FailureNudge}}

\* the message at position p is a JSON object whose status is "success" in
\* some casing
StatusIsSuccess(p) ==
    LET text == OrEmpty(conversation[p].content)
    IN  /\ JsonLoads(text).ok
        /\ Lower(DictGet(JsonLoads(text).value, "status")) = "success"

\* the rounds of this turn whose tool messages are all in the conversation
RoundsDone ==
    {i \in AssistantPositions :
        Len(conversation[i].tool_calls) >= 1
        /\ i + Len(conversation[i].tool_calls) <= Len(conversation)}

Passed == {filtered.value[i] : i \in 1..Len(filtered.value)}

\* C13: _filter_tools called with an explicitly empty allowed_tags returns
\* the empty list for every catalog and every allowed_names and required_tags.
C13_EmptyAllowedTagsYieldsNothing ==
    (filtered.done /\ allowed_tags = Provided({})) => filtered.value = <<>>

\* an empty allowed_tags emptied a catalog that names and required tags let pass
C13_EmptiedCatalog ==
    /\ filtered.done /\ allowed_tags = Provided({})
    /\ Len(tools) = MaxTools
    /\ allowed_names = Absent /\ required_tags = Absent
    /\ filtered.value = <<>>

\* C14: whenever allowed_names is provided, also as an empty collection, only
\* tools whose name is in allowed_names pass; a provided but empty
\* allowed_names yields no tools.
C14_OnlyAllowedNamesPass ==
    (filtered.done /\ allowed_names.provided) =>
        \A t \in Passed : t.name \in allowed_names.values

\* a provided allowed_names that is not empty lets only its names pass
C14_NonEmptyNamesRestrict ==
    (filtered.done /\ allowed_names.provided /\ allowed_names.values # {}) =>
        \A t \in Passed : t.name \in allowed_names.values

\* the tools of a catalog that meet the OR of A and the AND of R, in order
Matching(A, R) ==
    SelectSeq(tools, LAMBDA t : t.tags \cap A # {} /\ R \subseteq t.tags)

\* C15: for a non-empty allowed_tags A and a required_tags R, allowed_names
\* unrestricted, the list returned holds exactly the tools whose tags share
\* an element with A and contain all of R, in catalog order; with the three
\* arguments absent the catalog is returned unchanged.
C15_TagSemantics ==
    filtered.done =>
        /\ (allowed_names = Absent /\ allowed_tags.values # {}) =>
               filtered.value = Matching(allowed_tags.values, required_tags.values)
        /\ (allowed_names = Absent /\ allowed_tags = Absent /\ required_tags = Absent) =>
               filtered.value = tools

\* two allowed tags of which each kept tool carries one, a required tag that
\* drops a tool, and a kept tool behind a dropped one
C15_OrAndOrder ==
    /\ filtered.done /\ allowed_names = Absent
    /\ allowed_tags = Provided({"weather", "calendar"})
    /\ required_tags = Provided({"requires_confirmation"})
    /\ Len(tools) = 2 /\ tools[1].name = "get_weather"
    /\ filtered.value = <<tools[2]>>

\* ----------------------------------------------------------------- speech
RECURSIVE Flatten(_)
Flatten(texts) == IF texts = <<>> THEN <<>> ELSE texts[1] \o Flatten(Tail(texts))

\* the texts handed to synthesis so far, in the order of their audio events
AudioTexts ==
    LET audio == SelectSeq(sse, LAMBDA e : e.type = "audio")
    IN  [i \in 1..Len(audio) |-> audio[i].text]

\* what is spoken of a text that arrives in one delta, final flush included
WholeSpoken(text) ==
    LET d == TextDelta(<<>>, text)
    IN  d.spoken \o ForceFlush(d.speech_buffer)

\* C16: for any assistant text and any two ways of splitting it into text
\* deltas, the concatenation of the segment texts handed to synthesis by the
\* time the end-of-turn flush has run is the same: it is that of the text
\* delivered in one delta.
C16_ChunkInvariance ==
    (mode = "streaming" /\ TurnReturned) =>
        Flatten(AudioTexts) = Flatten(WholeSpoken(full_text))

\* s holds the atom c
Holds(s, c) == \E i \in 1..Len(s) : s[i] = c

\* a run of two list-item lines, bulleted or numbered, and the blank line
\* that ends it; the items are b and c
ListBlocks ==
    { <<"-", " ", "b", "\n", "-", " ", "c", "\n", "\n">>,
      <<"1", ".", " ", "b", "\n", "2", ".", " ", "c", "\n", "\n">> }
HasListBlock(text) ==
    \E blk \in ListBlocks : \E i \in 0..Len(text) :
        i + Len(blk) <= Len(text) /\ SubSeq(text, i + 1, i + Len(blk)) = blk

\* the list block as it is spoken: its items in order and nothing else
SpokenList == ItemsLine(<< <<"b">>, <<"c">> >>)[1]

\* C17: a run of two or more consecutive list-item lines ended by a blank
\* line yields exactly one segment that holds all items of the run in order;
\* no item of the run is in any other segment and no prose line is in that
\* segment, whether the block arrives in one increment or split.
C17_ListBlockIsOneSegment ==
    (mode = "streaming" /\ TurnReturned /\ HasListBlock(full_text)) =>
        /\ Cardinality({i \in 1..Len(AudioTexts) : AudioTexts[i] = SpokenList}) = 1
        /\ \A i \in 1..Len(AudioTexts) :
               (Holds(AudioTexts[i], "b") \/ Holds(AudioTexts[i], "c")) =>
                   AudioTexts[i] = SpokenList

\* a text that is a list block alone, or a list block behind a finished
\* sentence, is spoken as the claim says
C17_ListBehindSentence ==
    (mode = "streaming" /\ TurnReturned /\ HasListBlock(full_text)
        /\ (full_text[1] \in {"-", "1"} \/ full_text[2] = ".")) =>
        /\ Cardinality({i \in 1..Len(AudioTexts) : AudioTexts[i] = SpokenList}) = 1
        /\ \A i \in 1..Len(AudioTexts) :
               (Holds(AudioTexts[i], "b") \/ Holds(AudioTexts[i], "c")) =>
                   AudioTexts[i] = SpokenList

\* the letters of a text, in order
Letters == {"a", "b", "c", "d", LongWord}
LettersOf(s) == SelectSeq(s, LAMBDA c : c \in Letters)

\* every letter of the assistant text has been handed to synthesis, in
\* order, by audio events that precede the one done event
AllSpokenBeforeDone ==
    /\ LettersOf(Flatten(AudioTexts)) = LettersOf(full_text)
    /\ Cardinality(Events("done")) = 1
    /\ \A i \in Events("audio") : \A j \in Events("done") : i < j

\* C18 as stated: when a streaming turn completes, every piece of assistant
\* text not yet handed to synthesis is handed to it before the done event,
\* and the speech buffer is empty afterwards.
C18_FlushLeavesBufferEmpty ==
    (mode = "streaming" /\ TurnReturned) =>
        AllSpokenBeforeDone /\ speech_buffer = <<>>

\* C18, amended: when a streaming turn completes, every piece of assistant
\* text not yet handed to synthesis (an open list, pending prose, an
\* unfinished last line) is handed to it before the done event, and the
\* speech buffer holds nothing but white space afterwards.
C18_FlushLeavesNoText ==
    (mode = "streaming" /\ TurnReturned) =>
        AllSpokenBeforeDone /\ Strip(speech_buffer) = <<>>

\* the turn ended with an open list in the buffer, spoken by the final flush
C18_OpenListFlushed ==
    /\ mode = "streaming" /\ TurnReturned
    /\ full_text = <<"a", ".", "\n", "-", " ", "b", "\n", "-", " ", "c">>
    /\ Len(sse) >= 3
    /\ sse[Len(sse)].type = "done"
    /\ sse[Len(sse) - 1].type = "audio" /\ sse[Len(sse) - 1].text = SpokenList
    /\ sse[Len(sse) - 2].type = "text_delta"

\* the last k audio events before the last event of the stream are the
\* texts of spoken, in order
SpokenJustBefore(events, spoken) ==
    /\ Len(events) > Len(spoken)
    /\ \A i \in 1..Len(spoken) :
           LET e == events[Len(events) - 1 - Len(spoken) + i]
           IN  e.type = "audio" /\ e.text = spoken[i]

\* C19: in a streaming turn, before any tool invocation starts, all speech
\* text buffered so far has been force-flushed: its segments were handed to
\* synthesis and their audio events emitted before the tool_call event, and
\* the speech buffer is empty when the tool runs.
C19_FlushedBeforeTool ==
    [][(mode = "streaming" /\ invoked' # invoked) =>
           /\ sse'[Len(sse')].type = "tool_call"
           /\ SpokenJustBefore(sse', ForceFlush(speech_buffer))
           /\ speech_buffer' = <<>>]_vars

\* the same while speech synthesis does not fail
C19_FlushedWhenSynthesisWorks ==
    [][(mode = "streaming" /\ invoked' # invoked /\ varied' = varied) =>
           /\ sse'[Len(sse')].type = "tool_call"
           /\ SpokenJustBefore(sse', ForceFlush(speech_buffer))
           /\ speech_buffer' = <<>>]_vars

\* a tool runs while the text said before it is still in the speech buffer
C19_ToolRunsUnspoken ==
    /\ mode = "streaming" /\ pc = "toolwait"
    /\ Strip(speech_buffer) # <<>>
    /\ Events("audio") = {}

\* the texts of the events of one type among the first p events
TextsUpTo(type, p) ==
    LET es == SelectSeq(SubSeq(sse, 1, p), LAMBDA e : e.type = type)
    IN  Flatten([i \in 1..Len(es) |-> es[i].text])

IsPrefix(s, t) == Len(s) <= Len(t) /\ s = SubSeq(t, 1, Len(s))

\* C20: audio events are emitted in the order in which their segments were
\* cut from the assistant text, and no segment's audio is emitted before the
\* text_delta that completed it: at every audio event, what has been spoken
\* so far is, letter for letter, a prefix of the text delivered before it.
C20_AudioInTextOrder ==
    \A p \in Events("audio") :
        IsPrefix(LettersOf(TextsUpTo("audio", p)),
                 LettersOf(TextsUpTo("text_delta", p - 1)))

\* two segments spoken after one delta, then a delta, then a third segment
C20_AudioInterleaved ==
    \E p \in Events("audio") :
        /\ p + 3 <= Len(sse)
        /\ sse[p + 1].type = "audio" /\ sse[p + 1].text # sse[p].text
        /\ sse[p + 2].type = "text_delta"
        /\ sse[p + 3].type = "audio"

\* the calls of speech synthesis made in this step, and their texts
NewCalls == SubSeq(synthesized', Len(synthesized) + 1, Len(synthesized'))
CallTexts(tts_calls) == [i \in 1..Len(tts_calls) |-> tts_calls[i].text]

\* the texts of the audio events emitted in this step
NewAudio ==
    LET es == SelectSeq(SubSeq(sse', Len(sse) + 1, Len(sse')),
                        LAMBDA e : e.type = "audio")
    IN  [i \in 1..Len(es) |-> es[i].text]

\* a flush of this step hands every text of spoken to synthesis, emits the
\* audio of every call that returned, and the turn goes on
FlushHandsOver(spoken) ==
    /\ CallTexts(NewCalls) = spoken
    /\ NewAudio = Audible(NewCalls)
    /\ outcome'.kind # "raised"

\* the steps with the three flushes of run_stream (text_delta,
\* tool_call_start, done)
AtTextDelta ==
    pc = "stream" /\ stream # <<>> /\ Head(stream).content # <<>> /\ stream' # stream
AtToolCallStart == pc = "tool" /\ loop_count + 1 < max_tool_loops
AtDone == pc = "stream" /\ stream = <<>> /\ outcome'.kind = "returned"

\* C21: when speech synthesis fails for one segment, every other segment of
\* the same flush (streaming extraction, pre-tool flush, end-of-turn flush)
\* is still handed to synthesis and its audio emitted, the flushed text
\* leaves the speech buffer so that no spoken segment is synthesized a
\* second time, and the turn continues.
C21_FailureSparesOtherSegments ==
    [][(mode = "streaming" /\ vars' # vars) =>
           /\ AtTextDelta =>
                  /\ FlushHandsOver(TextDelta(speech_buffer, Head(stream).content).spoken)
                  /\ speech_buffer' =
                         TextDelta(speech_buffer, Head(stream).content).speech_buffer
           /\ AtToolCallStart =>
                  /\ FlushHandsOver(ForceFlush(speech_buffer))
                  /\ Strip(speech_buffer') = <<>>
           /\ AtDone =>
                  /\ FlushHandsOver(ForceFlush(speech_buffer))
                  /\ Strip(speech_buffer') = <<>>]_vars

\* the same of the flushes that guard each synthesis on its own
C21_GuardedFlushesSpareSegments ==
    [][(mode = "streaming" /\ vars' # vars) =>
           /\ AtTextDelta =>
                  /\ FlushHandsOver(TextDelta(speech_buffer, Head(stream).content).spoken)
                  /\ speech_buffer' =
                         TextDelta(speech_buffer, Head(stream).content).speech_buffer
           /\ AtDone =>
                  /\ FlushHandsOver(ForceFlush(speech_buffer))
                  /\ Strip(speech_buffer') = <<>>]_vars

\* a pre-tool flush of two segments ended at the first one: its synthesis
\* raised, the second was never handed over and the text is still buffered
C21_FlushAborted ==
    /\ mode = "streaming" /\ pc = "toolwait"
    /\ synthesized = << [text |-> <<"Sending">>, ok |-> FALSE] >>
    /\ ForceFlush(speech_buffer) = << <<"Sending">>, <<"now">> >>

\* the first segment of a pre-tool flush was spoken and is still buffered
C21_SpokenStaysBuffered ==
    /\ mode = "streaming" /\ pc = "toolwait"
    /\ synthesized = << [text |-> <<"Sending">>, ok |-> TRUE],
                        [text |-> <<"now">>, ok |-> FALSE] >>
    /\ ForceFlush(speech_buffer) = << <<"Sending">>, <<"now">> >>

\* C22: no two turns of the same session run concurrently: of any two
\* requests with the same session id, one's reads and appends of the session
\* history all come before, or all come after, the other's, so no request
\* comes back to the history after another request has accessed it.
C22_TurnsOfASessionAreSerial ==
    \A s \in SessionIds :
        \A i, j \in 1..Len(accesses[s]) : i # j => accesses[s][i] # accesses[s][j]

\* the turns of two requests interleaved in the history of one session
C22_TurnsInterleaved ==
    \E s \in SessionIds :
        /\ accesses[s] = <<1, 2, 1, 2>>
        /\ [i \in 1..Len(_sessions[s].turns) |-> _sessions[s].turns[i].role]
               = <<"user", "user", "assistant", "assistant">>

\* C28: whatever the interleaving of concurrent requests that supply
\* different timezones, the tool code run for a request works with the
\* timezone its own request supplied, never with another request's.
C28_ToolSeesOwnTimezone ==
    \A c \in Clients :
        clients[c].pc = "store" =>
            clients[c].tz = _get_effective_tz(clients[c].timezone_name)

\* two requests at work at once on two threads, with different timezones,
\* the tool of each given the zone of its own request
C28_TwoZonesAtOnce ==
    /\ clients[1].pc = "store" /\ clients[2].pc = "store"
    /\ clients[1].thread # clients[2].thread
    /\ clients[1].timezone_name = "Asia/Tokyo" /\ clients[1].tz = "Asia/Tokyo"
    /\ clients[2].timezone_name = "Europe/Paris" /\ clients[2].tz = "Europe/Paris"

\* the tool turns of ts with no earlier assistant turn that lists their id
Stranded(ts) ==
    {i \in 1..Len(ts) :
        /\ ts[i].role = "tool"
        /\ ~\E j \in 1..(i - 1) :
               /\ ts[j].role = "assistant"
               /\ \E k \in 1..Len(ts[j].tool_calls) :
                      ts[j].tool_calls[k].id = ts[i].tool_call_id}

\* s is a run of consecutive elements of t
IsRunOf(s, t) ==
    \E k \in 0..(Len(t) - Len(s)) : s = SubSeq(t, k + 1, k + Len(s))

\* the turns ChatAgent.respond hands to trim_history in this step: the user
\* turn appended at the start of a buffered turn, the new messages at its end
BeforeTrim ==
    IF pc = "idle" THEN Append(turns, turns'[Len(turns')])
    ELSE StoreFrom(turns, conversation', TurnStart)

\* C23: after trim_history the remaining turns are a run of consecutive
\* turns of the history before the trim, in the same order, and every
\* remaining tool turn still has, earlier in the remaining history, the
\* assistant turn whose tool_calls lists its tool_call_id.
C23_TrimStrandsNoToolTurn ==
    [][(mode' = "buffered" /\ turns' # turns) =>
           /\ IsRunOf(turns', BeforeTrim)
           /\ Stranded(BeforeTrim) = {} => Stranded(turns') = {}]_vars

\* the part of it about order alone
C23_TrimKeepsARun ==
    [][(mode' = "buffered" /\ turns' # turns) => IsRunOf(turns', BeforeTrim)]_vars

\* a trimmed history that begins with a tool turn, its assistant turn cut off
C23_ToolTurnStranded ==
    /\ mode = "buffered" /\ pc = "llm"
    /\ Len(turns) = max_turns
    /\ turns[1].role = "tool"
    /\ 1 \in Stranded(turns)

\* C24: once the stream driver observes the client disconnect (generate() is
\* closed, at a keep-alive or at an event), no further LLM call and no further
\* tool invocation is started for that turn.
C24_NoCallAfterDisconnect ==
    [][outcome'.kind = "closed" =>
           /\ llmCalls' = llmCalls
           /\ llmTotal' = llmTotal
           /\ invoked' = invoked]_vars

\* the client went away while a tool call was awaited, a further call of the
\* round still to make
C24_ClosedInToolLoop ==
    /\ outcome.kind = "closed"
    /\ driver.next_task = "cancelled"
    /\ invoked # <<>>
    /\ Len(invoked) < Len(calls)

\* the streaming turn has left the driver
DriverLeft == mode = "streaming" /\ outcome.kind \in {"returned", "raised", "closed"}

\* C25: on every exit path of the stream driver (completion, the cap, an
\* exception of a collaborator, a disconnect while the next event is pending,
\* a disconnect between events) the cleanup has run to its end when the
\* driver returns: run_stream and the bridge are finalized, no task of the
\* turn is pending and the turn's event loop is closed.
C25_CleanupCompletes ==
    DriverLeft =>
        /\ driver.async_gen = "closed"
        /\ driver.bridge = "closed"
        /\ driver.next_task \in {"done", "cancelled"}
        /\ driver.loop = "closed"

\* the client went away between two events of a round that had called a tool
C25_ClosedBetweenEvents ==
    /\ DriverLeft
    /\ outcome.kind = "closed"
    /\ driver.next_task = "done"
    /\ sse[Len(sse)].type = "tool_result"

\* the messages of the session's turns
HistoryMessages == [i \in 1..Len(turns) |-> to_message(turns[i])]

\* C26: a streaming turn interrupted by a client disconnect before the bridge
\* yielded done appends no assistant or tool content to the session history:
\* the history is what it was right after the user turn was appended, the
\* messages the turn's conversation was built from.
C26_InterruptedTurnStoresNothing ==
    outcome.kind = "closed" =>
        /\ turns # <<>>
        /\ turns[Len(turns)].role = "user"
        /\ Len(turns) = historical_count
        /\ HistoryMessages =
               SubSeq(conversation, 2 + Len(context_prefix),
                      1 + Len(context_prefix) + historical_count)

\* the turn was interrupted after text was streamed and a tool had answered
C26_ClosedAfterText ==
    /\ outcome.kind = "closed"
    /\ full_text # <<>>
    /\ tool_summaries # <<>>

\* the text holds one of the words, or two neighbouring words that form one
\* of the phrases, whatever the case of its letters
Mentions(text, words, phrases) ==
    \E i \in 1..Len(text) :
        \/ Lower(text[i]) \in words
        \/ i < Len(text) /\ <<Lower(text[i]), Lower(text[i + 1])>> \in phrases

ListedWords == {"yes", "yeah", "confirm", "approve", "ok"}
ListedPhrases == {<<"go", "ahead">>, <<"send", "it">>, <<"do", "it">>}
VariantWords == {"yep", "confirmed", "approved", "okay"}

\* the tool loop is about to take a call of a tool that requires confirmation
AtGate == pc = "tool" /\ Tagged(calls[callIdx].name)

\* C27 as stated: a user message counts as confirmation if and only if it
\* contains, as a whole word or phrase and ignoring case, one of yes, yeah,
\* confirm, approve, ok, go ahead, send it, do it.
C27_ListedVocabulary ==
    [][AtGate =>
           (invoked' # invoked <=>
                Mentions(MostRecentUserText, ListedWords, ListedPhrases))]_vars

\* C27, amended: a user message counts as confirmation if and only if it
\* contains, as a whole word or phrase and ignoring case, one of yes, yeah,
\* yep, confirm, confirmed, approve, approved, ok, okay, go ahead, send it,
\* do it.
C27_VocabularyWithVariants ==
    [][AtGate =>
           (invoked' # invoked <=>
                Mentions(MostRecentUserText, ListedWords \cup VariantWords,
                         ListedPhrases))]_vars

\* the user said "okay" and the tool that requires confirmation was called
C27_OkayConfirms ==
    /\ MostRecentUserText = <<"okay">>
    /\ invoked # <<>>
    /\ Tagged(invoked[1].name)

\* the fragments of one delta that carry the index idx
FragmentsFor(frags, idx) == SelectSeq(frags, LAMBDA f : f.index = idx)

RECURSIVE NamesJoined(_)
NamesJoined(frags) ==
    IF frags = <<>> THEN "" ELSE frags[1].name \o NamesJoined(Tail(frags))

RECURSIVE ArgumentsJoined(_)
ArgumentsJoined(frags) ==
    IF frags = <<>> THEN <<>> ELSE frags[1].arguments \o ArgumentsJoined(Tail(frags))

\* what was assembled for idx so far
AssembledSoFar(idx) ==
    IF idx \in DOMAIN current_tool_calls THEN current_tool_calls[idx]
    ELSE [id |-> NoId, name |-> "", arguments |-> <<>>]

\* the stream hands over a delta; the stream has ended and tools were called for
DeltaArrives == mode = "streaming" /\ pc = "stream" /\ stream # <<>> /\ stream' = Tail(stream)
CallsAssembled == mode = "streaming" /\ pc = "stream" /\ stream = <<>> /\ pc' = "tool"

\* every delta extends the arguments of the indices it names, and of no other
ArgumentsExtended ==
    LET frags == Head(stream).tool_calls
    IN  /\ DOMAIN current_tool_calls' =
               DOMAIN current_tool_calls \cup {frags[i].index : i \in 1..Len(frags)}
        /\ \A idx \in DOMAIN current_tool_calls' :
               current_tool_calls'[idx].arguments =
                   AssembledSoFar(idx).arguments
                       \o ArgumentsJoined(FragmentsFor(frags, idx))

\* every delta extends the names of the indices it names, and of no other
NamesExtended ==
    \A idx \in DOMAIN current_tool_calls' :
        current_tool_calls'[idx].name =
            AssembledSoFar(idx).name
                \o NamesJoined(FragmentsFor(Head(stream).tool_calls, idx))

\* the calls of the round are the assembled entries by ascending index
OrderedByIndex ==
    LET idxs == DOMAIN current_tool_calls
        Rank(i) == Cardinality({j \in idxs : j <= i})
    IN  /\ Len(calls') = Cardinality(idxs)
        /\ \A i \in idxs :
               calls'[Rank(i)] = ToolCall(current_tool_calls[i].id,
                                          current_tool_calls[i].name,
                                          current_tool_calls[i].arguments)

\* C29: in streaming mode, for each tool-call index the assembled function
\* name is the concatenation, in arrival order, of the name fragments of that
\* index, the assembled arguments the concatenation of its argument
\* fragments; fragments of different indices are never mixed, and the
\* assembled calls are ordered by index whatever the order of arrival.
C29_FragmentsConcatenated ==
    /\ [][DeltaArrives => ArgumentsExtended /\ NamesExtended]_vars
    /\ [][CallsAssembled => OrderedByIndex]_vars

\* the part of it about arguments and order
C29_ArgumentsConcatenated ==
    /\ [][DeltaArrives => ArgumentsExtended]_vars
    /\ [][CallsAssembled => OrderedByIndex]_vars

\* a name that arrived in two fragments was assembled as its last fragment
C29_NameLostItsHead ==
    /\ mode = "streaming" /\ pc = "tool"
    /\ calls # <<>>
    /\ calls[1].name = "weather"

\* the fragments of the second call arrived first, the calls are in order
C29_SecondCallArrivedFirst ==
    /\ mode = "streaming" /\ pc = "stream"
    /\ DOMAIN current_tool_calls = {1}

\* the turn stands before its first LLM call
BeforeFirstCall == pc = "llm" /\ llmCalls = 0

\* C30: in the conversation sent on the first LLM call of a turn the messages
\* appear in the order system preamble, tool-availability notice, context
\* prefix, session history, new user message; the new user message is the
\* last message of that conversation.
C30_UserMessageLast ==
    BeforeFirstCall =>
        /\ conversation =
               <<SystemMessage, ToolAvailabilityMessage>> \o context_prefix
                   \o HistoryMessages
        /\ conversation[Len(conversation)].role = "user"

\* the order the bridge builds: preamble, context prefix, session history
\* with the new user message, and the tool-availability notice last
C30_NoticeLast ==
    BeforeFirstCall =>
        /\ conversation =
               <<SystemMessage>> \o context_prefix \o HistoryMessages
                   \o <<ToolAvailabilityMessage>>
        /\ conversation[Len(conversation) - 1].role = "user"

\* a turn on a session with history stands before its first LLM call, the
\* notice behind the new user message
C30_NoticeBehindUserMessage ==
    /\ BeforeFirstCall
    /\ Len(turns) > 1
    /\ conversation[Len(conversation)] = ToolAvailabilityMessage
    /\ conversation[Len(conversation) - 1] = to_message(turns[Len(turns)])

\* the prose block pending in b is ripe: 160 characters, or a final . ! ? :
Ripe(b) ==
    LET joined == Strip(Join(b.current_text_lines, <<"\n">>))
    IN  /\ joined # <<>>
        /\ \/ TextLen(joined) >= min_block_len
           \/ joined[Len(joined)] \in SentenceEnd \cup {":"}

\* the prose block pending in b ends a sentence
EndsSentence(b) ==
    LET joined == Strip(Join(b.current_text_lines, <<"\n">>))
    IN  joined # <<>> /\ joined[Len(joined)] \in SentenceEnd

\* the blocks of the segmenter after the first k completed lines of buffer
BlocksAfter(buffer, k) ==
    TakeLines(Blocks(<<>>, <<>>, <<>>, FALSE), SubSeq(Split(buffer), 1, k))

\* the completed lines of buffer
CompleteLines(buffer) == 1..(Len(Split(buffer)) - 1)

\* C31: in the line/list-aware strategy a pending prose block is emitted as
\* soon as, after a completed line is added, its text is at least 160
\* characters long or ends in one of . ! ? : ; no block that meets either
\* condition is left pending after the line that made it meet the condition.
C31_RipeBlockIsEmitted ==
    [][\A k \in CompleteLines(speech_buffer) :
           ~Ripe(BlocksAfter(speech_buffer, k))]_vars

\* the part of it about a block that ends in . ! ?
C31_SentenceEndIsEmitted ==
    [][\A k \in CompleteLines(speech_buffer) :
           ~EndsSentence(BlocksAfter(speech_buffer, k))]_vars

\* a line that ends in a colon was extracted and is held back whole
C31_ColonLineHeldBack ==
    /\ segs.done
    /\ segs.value = <<>>
    /\ speech_buffer = <<"a", ":", "\n">>

\* three long words, 180 characters, were extracted and are held back
C31_LongLineHeldBack ==
    /\ segs.done
    /\ segs.value = <<>>
    /\ speech_buffer = <<LongWord, LongWord, LongWord, "\n">>


\* C40: the segmenter's remainder is a fixed point: if the extraction of a
\* buffer b returns (segments, r), the extraction of r returns no segments
\* and the remainder r again; re-feeding held-back text without new input
\* emits no segment and does not change the held-back text.
C40_RemainderIsFixedPoint ==
    segs.done =>
        /\ _extract_speak_segments(speech_buffer).segments = <<>>
        /\ _extract_speak_segments(speech_buffer).remainder = speech_buffer

\* a sentence was cut, the open list behind it was held back renumbered and
\* then extracted once more
C40_OpenListExtractedAgain ==
    /\ segs.done
    /\ segs.value = <<>>
    /\ speech_buffer = <<"1", ".", " ", "b", "\n", "-", " ", "c">>


\* the notice built for the request under examination
Notice == _tool_availability_message(tools, filtered.value, allowed_tags)

\* C32: the tool-availability notice is consistent with the enabled tools it
\* names: a tag of the full catalog is listed as an enabled category if and
\* only if an enabled tool carries it and as a disabled category otherwise;
\* no tag carried by an enabled tool is reported as disabled.
C32_NoticeMatchesEnabledTools ==
    filtered.done =>
        /\ \A tag \in TagsOf(tools) :
              /\ tag \in Notice.enabled_categories <=> tag \in TagsOf(filtered.value)
              /\ tag \in Notice.disabled_categories <=> tag \notin TagsOf(filtered.value)
        /\ TagsOf(filtered.value) \cap Notice.disabled_categories = {}

\* the notice names the enabled tools in order, and every tag of the
\* catalog is in exactly one of its two lists
C32_NoticeNamesEnabledTools ==
    filtered.done =>
        /\ Notice.tool_names = [i \in 1..Len(filtered.value) |-> filtered.value[i].name]
        /\ \A tag \in TagsOf(tools) :
              tag \in Notice.enabled_categories <=> tag \notin Notice.disabled_categories

\* only the calendar category is allowed: create_event is enabled and its
\* other tag is listed as disabled
C32_EnabledToolCategoryDisabled ==
    /\ filtered.done
    /\ allowed_tags = Provided({"calendar"})
    /\ \E i \in 1..Len(filtered.value) :
          /\ filtered.value[i].name = "create_event"
          /\ "requires_confirmation" \in filtered.value[i].tags
    /\ "requires_confirmation" \in Notice.disabled_categories

\* no tags are given and the names allow one tool of two: the category of
\* the other tool is listed as enabled
C32_UnusedCategoryEnabled ==
    /\ filtered.done
    /\ ~allowed_tags.provided
    /\ Len(tools) = 2
    /\ Len(filtered.value) = 1
    /\ \E tag \in Notice.enabled_categories : tag \notin TagsOf(filtered.value)


\* the events the client has received, the keep-alive comments left out
Forwarded == SelectSeq(sse, LAMBDA e : e.type # "keep-alive")
\* the events run_stream has yielded and the driver has taken from its task
Taken ==
    SubSeq(yields.events, 1,
           IF driver.next_task = "done" /\ driver.async_gen = "suspended"
           THEN yields.count - 1 ELSE yields.count)

\* C33: the keep-alive of the stream driver never loses or duplicates an
\* event: at a wait without an event the driver emits a keep-alive comment
\* and keeps waiting on the same pending task, neither cancelled nor made
\* anew, so every event run_stream yields is forwarded to the client exactly
\* once and in the order of its yields, however many keep-alives come
\* between; when the driver has left its loop the client has every event.
C33_KeepAliveLosesNothing ==
    /\ [](Forwarded = Taken)
    /\ [](driver.loop = "closed" => Forwarded = yields.events)
    /\ [][Len(sse') > Len(sse) /\ sse'[Len(sse')] = KeepAliveComment
             => /\ driver' = driver
                /\ driver.next_task = "pending"
                /\ yields' = yields]_vars

\* a run of MaxEvents events came through with keep-alives before the first
\* event and between two events
C33_KeepAlivesBetweenEvents ==
    /\ driver.loop = "closed"
    /\ Len(yields.events) = MaxEvents
    /\ Len(sse) > Len(yields.events) + 1
    /\ sse[1] = KeepAliveComment
    /\ \E i \in 2..(Len(sse) - 1) :
          /\ sse[i] = KeepAliveComment
          /\ sse[i - 1] # KeepAliveComment
          /\ sse[i + 1] # KeepAliveComment


\* C34: within a turn the conversation is only ever extended at its end: at
\* every step of the orchestration loop the conversation before the step is
\* a prefix of the conversation after it; no message is removed, replaced or
\* reordered.
C34_ConversationOnlyExtended ==
    [][pc # "idle" => IsPrefix(conversation, conversation')]_vars

\* a tool round and the answer after it have extended the conversation: it
\* ends with the tool message, the nudge and the final assistant message
C34_ExtendedByToolRound ==
    /\ pc = "idle"
    /\ outcome.kind = "returned"
    /\ Len(conversation) >= 3
    /\ conversation[Len(conversation) - 2].role = "tool"
    /\ conversation[Len(conversation) - 1] \in {SuccessNudge, FailureNudge}
    /\ conversation[Len(conversation)].role = "assistant"


\* the names of the tools offered to the LLM for the turn
EnabledNames == {filtered.value[i].name : i \in 1..Len(filtered.value)}

\* C35: every tool that the orchestration loop invokes on the tool-serving
\* collaborator belongs to the filtered set that was offered to the LLM for
\* that turn; a call naming a tool outside that set is never executed.
C35_InvokedToolsEnabled ==
    \A i \in 1..Len(invoked) : invoked[i].name \in EnabledNames

\* with no tool offered (tool_choice "none") no tool is invoked
C35_NoToolOfferedNoneInvoked ==
    filtered.value = <<>> => invoked = <<>>

\* only the gmail category is allowed and get_weather has been invoked
C35_DisabledToolInvoked ==
    /\ allowed_tags = Provided({"gmail"})
    /\ "get_weather" \notin EnabledNames
    /\ \E i \in 1..Len(invoked) : invoked[i].name = "get_weather"


\* ChatAgent.respond has returned
BufferedTurnOver == mode = "buffered" /\ pc = "idle" /\ outcome.kind = "returned"
\* the session's messages the turn started with, the new user message last
TurnHistory == SubSeq(conversation, 2 + Len(context_prefix),
                      1 + Len(context_prefix) + historical_count)
\* what the orchestration loop appended: assistant, tool and nudge messages
LoopAppended == SubSeq(conversation, 3 + Len(context_prefix) + historical_count,
                       Len(conversation))
AssistantAndTool(conv) == SelectSeq(conv, LAMBDA m : m.role \in {"assistant", "tool"})

\* C36: each ChatAgent.respond call adds to the session history exactly the
\* new user message followed by the assistant and tool messages that the
\* orchestration loop produced during the turn, in order; no message of the
\* conversation builder or of the loop scaffolding (system preamble,
\* tool-availability notice, context prefix, system nudge) is stored.
C36_StoresUserAndLoopMessages ==
    BufferedTurnOver =>
        HistoryMessages = TurnHistory \o AssistantAndTool(LoopAppended)

\* what is stored is the user message, the tool-availability notice and
\* then the assistant and tool messages of the loop; no nudge is stored
C36_StoresNoticeToo ==
    BufferedTurnOver =>
        HistoryMessages = TurnHistory \o <<ToolAvailabilityMessage>>
                          \o AssistantAndTool(LoopAppended)

\* a buffered turn with a tool round is over and the session holds the
\* notice as a turn of role developer behind the user message
C36_NoticeStored ==
    /\ BufferedTurnOver
    /\ tool_summaries # <<>>
    /\ \E i \in 2..Len(turns) :
          /\ turns[i].role = "developer"
          /\ turns[i - 1].role = "user"


\* the last turn of the session is the assistant's, with the returned text
LastTurnIsReturnedText ==
    /\ turns # <<>>
    /\ turns[Len(turns)].role = "assistant"
    /\ turns[Len(turns)].content = outcome.text

\* C37: whenever ChatAgent.respond returns text T for a turn, including a
\* turn that ended at the iteration cap, the last turn stored in the session
\* history is an assistant turn whose content is T.
C37_ReturnedTextIsLastTurn ==
    BufferedTurnOver => LastTurnIsReturnedText

\* it is so for every turn that ended below the cap
C37_AnswerIsLastTurn ==
    (BufferedTurnOver /\ ~CapReached(loop_count)) => LastTurnIsReturnedText

\* the turn ended at the cap: the fixed text was returned and the session
\* ends with the tool message of the last round
C37_CapTextNotStored ==
    /\ BufferedTurnOver
    /\ CapReached(loop_count)
    /\ outcome.text = Some(CapText)
    /\ turns[Len(turns)].role = "tool"


\* C38: after any completed turn, through the buffered agent or through the
\* streaming endpoint, the session history holds at most 40 turns, after
\* any sequence of turns on the same session.
C38_HistoryBounded ==
    (pc = "idle" /\ outcome.kind = "returned") => Len(turns) <= max_turns

\* it is so after every turn through the buffered agent
C38_BufferedHistoryBounded ==
    BufferedTurnOver => Len(turns) <= max_turns

\* a streaming turn on a session that earlier turns had filled is over and
\* the session holds more than max_turns turns
C38_StreamedPastTheBound ==
    /\ StreamingTurnOver
    /\ outcome.kind = "returned"
    /\ requests > 1
    /\ Len(turns) > max_turns


\* ------------------------------------------------ the two modes compared
\* What run_chat_with_mcp_tools makes of the replies of the collaborators:
\* the loop of lines 286-388 as a function of the completions and the tool
\* results, which stops where a result is still awaited.
ToolAnswered(acc, tc, payload_text) ==
    [acc EXCEPT !.conversation = Append(@, Message("tool", Some(payload_text), tc.id, <<>>)),
                !.tool_summaries = Append(@, [name |-> tc.name,
                                               arguments |-> ParseArgs(tc.arguments),
                                               response |-> payload_text]),
                !.tool_success = @ \/ PayloadSuccess(payload_text)]

Invoking(acc, tc) ==
    [acc EXCEPT !.invoked = Append(@, [id |-> tc.id, name |-> tc.name,
                                       arguments |-> ParseArgs(tc.arguments)])]

RECURSIVE ReplayCalls(_, _, _)
\* the for loop over the tool calls of a round, from call j on
ReplayCalls(acc, tool_calls, j) ==
    IF j > Len(tool_calls) \/ acc.waiting THEN acc
    ELSE IF Gated(acc.conversation, tool_calls[j].name)
    THEN ReplayCalls(ToolAnswered(acc, tool_calls[j],
                              ConfirmationRequiredPayload(tool_calls[j].name)),
                     tool_calls, j + 1)
    ELSE IF acc.results = <<>>
    THEN [Invoking(acc, tool_calls[j]) EXCEPT !.waiting = TRUE]
    ELSE ReplayCalls(ToolAnswered([Invoking(acc, tool_calls[j]) EXCEPT !.results = Tail(@)],
                              tool_calls[j], _stringify_tool_result(Head(acc.results))),
                     tool_calls, j + 1)

\* the nudge behind a round whose calls are all answered
Nudged(acc) ==
    IF acc.waiting THEN acc
    ELSE [acc EXCEPT !.conversation = append_nudge(@, acc.tool_success)]

\* the assistant message of the n-th completion is appended
Assisted(acc, out, n) ==
    [acc EXCEPT !.conversation =
                    Append(@, Message("assistant", out.content, NoId, OutputCalls(out, n))),
                !.tool_success = FALSE]

RECURSIVE ReplayRounds(_, _, _)
\* the while loop, from the n-th completion on
ReplayRounds(acc, outs, n) ==
    IF outs = <<>> \/ acc.waiting THEN acc
    ELSE IF Head(outs).calls = <<>> THEN Assisted(acc, Head(outs), n)
    ELSE ReplayRounds(
             Nudged(ReplayCalls(Assisted(acc, Head(outs), n), OutputCalls(Head(outs), n), 1)),
             Tail(outs), n + 1)

\* the conversation the turn started with, the notice last
BuiltConversation ==
    SubSeq(conversation, 1, 2 + Len(context_prefix) + historical_count)

Replayed ==
    ReplayRounds([conversation |-> BuiltConversation, invoked |-> <<>>,
                  tool_summaries |-> <<>>, tool_success |-> FALSE,
                  results |-> replies.results, waiting |-> FALSE],
                 replies.outs, llmTotal - Len(replies.outs) + 1)

\* a message by its role, its tool_call_id and its tool payload
Shape(m) ==
    [role |-> m.role, tool_call_id |-> m.tool_call_id,
     payload |-> IF m.role = "tool" THEN m.content ELSE None]
Shapes(conv) == [i \in 1..Len(conv) |-> Shape(conv[i])]

\* the turn is on the way of the buffered loop, or at its end
FollowsReplay(r) ==
    /\ IsPrefix(Shapes(conversation), Shapes(r.conversation))
    /\ IsPrefix(invoked, r.invoked)
    /\ IsPrefix(tool_summaries, r.tool_summaries)
EqualsReplay(r) ==
    /\ Shapes(conversation) = Shapes(r.conversation)
    /\ invoked = r.invoked
    /\ tool_summaries = r.tool_summaries

\* the turn returned below the iteration cap
ReturnedBelowCap ==
    pc = "idle" /\ outcome.kind = "returned" /\ ~CapReached(loop_count)

\* C39: buffered and streaming mode are equivalent on the conversation they
\* build: given the same initial messages, the same output of the LLM per
\* round (the deltas of the stream being a fragmentation of the buffered
\* message) and the same tool results, a turn of either mode appends the
\* messages that the buffered loop makes of these replies, by role,
\* tool_call_id and tool payload, invokes the same tools with the same
\* arguments in the same order and reports the same tool summaries, at the
\* end of a run below the cap and on the way to it.
C39_ModesAgree ==
    pc # "idle" \/ outcome.kind = "returned" =>
        /\ FollowsReplay(Replayed)
        /\ ReturnedBelowCap => EqualsReplay(Replayed)

\* a streaming turn has invoked a tool under the last fragment of the name
\* the completion asked for
C39_StreamedNameDiffers ==
    /\ mode = "streaming"
    /\ pc = "toolwait"
    /\ replies.outs = <<PlainOutput>>
    /\ Len(invoked) = 1
    /\ invoked[1].name # "get_weather"
====
